---- MODULE Spec2Model ----
(***************************************************************************)
(* Market-data fan-out of icici-breeze: the single upstream Breeze feed    *)
(* connector (BreezeSocketService), its subscription registry, and the     *)
(* broadcast of normalized ticks to the downstream WebSocket clients.      *)
(*                                                                         *)
(* The repository holds two copies of the service: the current one under   *)
(* src/backend and an older one under src/src.  The state of the older     *)
(* copy carries the prefix legacy_.                                        *)
(***************************************************************************)
EXTENDS Integers, Sequences, FiniteSets, TLC

(***************************************************************************)
(* Bounds of the model.                                                    *)
(***************************************************************************)
\* connect() invocations explored per behaviour
MaxCalls == 3
\* upstream feed calls after which no further registry operation starts
MaxUpstream == 2
\* external events per behaviour of the fan-out: client requests handled by
\* the WebSocket endpoints plus ticks delivered by the feed
MaxEvents == 3
\* downstream WebSocket connections per behaviour
MaxSockets == 2

(***************************************************************************)
(* Program constants.                                                      *)
(***************************************************************************)
\* ws_stream_manager.py:233  max_attempts = 5
max_attempts == 5
\* ws_stream_manager.py:234  backoff_seconds = 1.5, in tenths of a second
backoff_seconds_x10 == 15

\* stream.py:36  ConnectionState.min_interval_ms
min_interval_ms == 250

Sockets == 1..MaxSockets

\* the exceptions svc.client.ws_connect() may raise
WsErrors == {"ConnectionRefused", "Timeout"}
\* RuntimeError("No Breeze session available")
NoSession == "NoSession"

VARIABLES
    \* ---- environment ------------------------------------------------
    session,        \* utils.session.get_breeze() returns a runtime service
    \* ---- BreezeSocketService (src/backend) --------------------------
    breeze,         \* self._breeze is not None
    connected,      \* self._connected
    onTicks,        \* svc.client.on_ticks is the service's callback
    registered,     \* callbacks the upstream client calls for one tick
    wsOpen,         \* the upstream transport is open (ws_connect succeeded)
    pc,             \* position of the running connect() call
    attempt,        \* loop variable of the retry loop
    \* ---- what the running / last connect() call did ------------------
    connCalls,      \* number of connect() calls started
    tries,          \* ws_connect() calls made by the call
    waits,          \* the time.sleep() arguments of the call, in order
    errs,           \* the exceptions of the failed attempts, in order
    outcome,        \* "none" | "running" | "noop" | "ok" | "raised"
    raisedErr,      \* the exception the call raised to its caller
    prevOutcome,    \* outcome of the call before
    \* ---- subscription registry and the upstream feed ------------------
    subscriptions,  \* self._subscriptions: key -> record
    upstream,       \* the subscribe_feeds / unsubscribe_feeds calls made, in order
    lastCall,       \* the registry operation completed last
    \* ---- downstream clients and the event loop ------------------------
    sock,           \* per WebSocket: "none" | "open" | "broken" | "closed"
    endpoint,       \* per WebSocket: "" | "ticks" | "options"
    clients,        \* self._clients
    option_clients, \* self._option_clients
    handlers,       \* STREAM_MANAGER._option_tick_handlers, by connection
    selected,       \* per connection: state.selected_expiry_iso
    loopSet,        \* self._loop is not None
    queue,          \* coroutines scheduled onto the loop, oldest first
    pending,        \* send tasks created by gather() and not yet finished
    inbox,          \* per WebSocket: the tick messages sent to it, in order
    now,            \* the clock, in ms since the first tick
    tickNo,         \* upstream ticks received so far
    targeted,       \* <<tick, socket>>: a broadcast created a send for it
    sendFailed,     \* <<tick, socket>>: that send raised
    loopErrors,     \* exceptions that escaped a scheduled coroutine
    requests,       \* client requests handled by the endpoints so far
    \* ---- BreezeSocketService (src/src, older copy) -------------------
    legacy_connected,
    legacy_onTicks,
    legacy_wsOpen,
    legacy_pc,
    legacy_subscriptions,   \* the keys of self._subscriptions
    legacy_state_symbol,    \* state.symbol of a /ws/ticks connection, "" for None
    legacy_state_breeze,    \* its state.breeze is the runtime service
    \* ---- last-known-quote cache (services/quotes_cache.py) -----------
    dsn,            \* settings.postgres_dsn is set
    dbUp,           \* the database accepts connections and statements
    db,             \* table ltp_cache: symbol -> number of the tick stored
    mem_cache,      \* _MEM_CACHE: symbol -> number of the tick stored
    lastTick,       \* symbol -> number of the latest tick the callback got
    touched,        \* loop-owned objects the callback thread has read itself
    cbErrors,       \* exceptions on_ticks let out to the SDK's thread
    logged,         \* the ticks whose exception on_ticks handed to log_exception
    depth_rows,     \* ticks.get("depth") of the tick under normalisation
    ladder,         \* payload["bids"] and payload["asks"] after lines 159-198
    \* ---- ConnectionState of each /ws/ticks connection (routes/stream.py) --
    state_symbol,   \* per connection: state.symbol, "" for None
    state_breeze,   \* per connection: state.breeze is not None
    unsubscribed    \* <<socket, symbol>>: an 'unsubscribed' message was sent

connVars == <<breeze, connected, onTicks, registered, wsOpen, pc, attempt>>
histVars == <<connCalls, tries, waits, errs, outcome, raisedErr, prevOutcome>>
legacyVars == <<legacy_connected, legacy_onTicks, legacy_wsOpen, legacy_pc,
               legacy_subscriptions, legacy_state_symbol, legacy_state_breeze>>
legacyClientVars == <<legacy_subscriptions, legacy_state_symbol, legacy_state_breeze>>
regVars == <<subscriptions, upstream, lastCall>>
fanVars == <<sock, endpoint, clients, option_clients, handlers, selected, loopSet,
             queue, pending, inbox, now, tickNo, targeted, sendFailed, loopErrors,
             requests>>
cbVars == <<dsn, dbUp, db, mem_cache, lastTick, touched, cbErrors, logged>>
depthVars == <<depth_rows, ladder>>
stateVars == <<state_symbol, state_breeze, unsubscribed>>
vars == <<session, connVars, histVars, regVars, fanVars, legacyVars, cbVars, depthVars, stateVars>>

\* the fields of the connector a connect() call can touch
ConnectorFields == <<breeze, connected, onTicks, registered, wsOpen>>

(***************************************************************************)
(* Environment: a user logs in (set_breeze) or the session goes away.      *)
(***************************************************************************)
Login ==
    /\ ~session
    /\ session' = TRUE
    /\ UNCHANGED <<connVars, histVars, regVars, fanVars, legacyVars, cbVars, depthVars, stateVars>>

Logout ==
    /\ session
    /\ session' = FALSE
    /\ UNCHANGED <<connVars, histVars, regVars, fanVars, legacyVars, cbVars, depthVars, stateVars>>

(***************************************************************************)
(* BreezeSocketService._ensure_breeze: the cached service, else the        *)
(* runtime session (which is then cached), else None.                      *)
(***************************************************************************)
ensure_breeze == breeze \/ session

(***************************************************************************)
(* BreezeSocketService.connect, src/backend.                               *)
(***************************************************************************)
\* `if self._connected: return`
Mut_AlreadyConnected == FALSE
AlreadyConnected == connected

\* `time.sleep(backoff_seconds * attempt)`
Mut_SleepTime(a) == backoff_seconds_x10
SleepTime(a) == backoff_seconds_x10 * a

\* `if attempt == max_attempts: raise`
Mut_Exhausted(a) == a >= max_attempts - 1
Exhausted(a) == a = max_attempts

\* `svc.client.on_ticks = on_ticks`: the attribute holds one callback, the
\* assignment replaces whatever it held
Mut_install_on_ticks(n) == n + 1
install_on_ticks(n) == 1

\* the call starts: guard, session lookup, callback registration
ConnectCall ==
    /\ pc = "idle"
    /\ connCalls < MaxCalls
    /\ connCalls' = connCalls + 1
    /\ prevOutcome' = outcome
    /\ tries' = 0
    /\ waits' = << >>
    /\ errs' = << >>
    /\ IF AlreadyConnected
       THEN /\ outcome' = "noop"
            /\ raisedErr' = "none"
            /\ UNCHANGED connVars
       ELSE IF ~ensure_breeze
       THEN /\ outcome' = "raised"
            /\ raisedErr' = NoSession
            /\ UNCHANGED connVars
       ELSE /\ breeze' = TRUE
            /\ onTicks' = TRUE
            /\ registered' = install_on_ticks(registered)
            /\ pc' = "open"
            /\ attempt' = 1
            /\ outcome' = "running"
            /\ raisedErr' = "none"
            /\ UNCHANGED <<connected, wsOpen>>
    /\ UNCHANGED <<session, regVars, fanVars, legacyVars, cbVars, depthVars, stateVars>>

\* one iteration of the retry loop: svc.client.ws_connect()
WsConnectOk ==
    /\ pc = "open"
    /\ tries' = tries + 1
    /\ wsOpen' = TRUE
    /\ connected' = TRUE
    /\ pc' = "idle"
    /\ outcome' = "ok"
    /\ UNCHANGED <<session, breeze, onTicks, registered, attempt, connCalls, waits, errs,
                   raisedErr, prevOutcome, regVars, fanVars, legacyVars, cbVars, depthVars, stateVars>>

WsConnectFail ==
    /\ pc = "open"
    /\ \E e \in WsErrors :
        /\ tries' = tries + 1
        /\ errs' = Append(errs, e)
        /\ IF Exhausted(attempt)
           THEN /\ pc' = "idle"
                /\ outcome' = "raised"
                /\ raisedErr' = e
           ELSE /\ pc' = "sleep"
                /\ UNCHANGED <<outcome, raisedErr>>
    /\ UNCHANGED <<session, breeze, connected, onTicks, registered, wsOpen, attempt,
                   connCalls, waits, prevOutcome, regVars, fanVars, legacyVars, cbVars, depthVars, stateVars>>

\* time.sleep(backoff_seconds * attempt), then the next iteration
Backoff ==
    /\ pc = "sleep"
    /\ waits' = Append(waits, SleepTime(attempt))
    /\ attempt' = attempt + 1
    /\ pc' = "open"
    /\ UNCHANGED <<session, breeze, connected, onTicks, registered, wsOpen, connCalls,
                   tries, errs, outcome, raisedErr, prevOutcome, regVars, fanVars, legacyVars, cbVars, depthVars, stateVars>>

(***************************************************************************)
(* BreezeSocketService.connect, src/src: opens the transport first and     *)
(* installs the callback afterwards; no retry.                             *)
(***************************************************************************)
LegacyConnectCall ==
    /\ legacy_pc = "idle"
    /\ ~legacy_connected
    /\ session
    /\ legacy_pc' = "open"
    /\ UNCHANGED <<session, connVars, histVars, regVars, fanVars, cbVars, depthVars, stateVars, legacy_connected,
                   legacy_onTicks, legacy_wsOpen, legacyClientVars>>

LegacyWsConnect ==
    /\ legacy_pc = "open"
    /\ \/ /\ legacy_wsOpen' = TRUE
          /\ legacy_pc' = "register"
       \/ /\ legacy_pc' = "idle"
          /\ UNCHANGED legacy_wsOpen
    /\ UNCHANGED <<session, connVars, histVars, regVars, fanVars, cbVars, depthVars, stateVars, legacy_connected, legacy_onTicks,
                   legacyClientVars>>

LegacyRegister ==
    /\ legacy_pc = "register"
    /\ legacy_onTicks' = TRUE
    /\ legacy_connected' = TRUE
    /\ legacy_pc' = "idle"
    /\ UNCHANGED <<session, connVars, histVars, regVars, fanVars, cbVars, depthVars, stateVars, legacy_wsOpen,
                   legacyClientVars>>

\* the older service as a value: the fields a subscribe call can touch
LegacySvc ==
    [connected |-> legacy_connected, onTicks |-> legacy_onTicks,
     wsOpen |-> legacy_wsOpen, subs |-> legacy_subscriptions]

\* src/src subscribe(stock_code): RuntimeError without a session; connect()
\* when not connected, which returns at once when _connected is set and
\* else opens the transport and installs the callback, or raises; then the
\* record is written.  An exception ends the call and is caught by ws_ticks.
legacy_subscribe(L, code, sess, ok) ==
    IF ~sess THEN L
    ELSE IF ~L.connected /\ ~ok THEN L
    ELSE LET L1 == IF L.connected THEN L
                   ELSE [L EXCEPT !.wsOpen = TRUE, !.onTicks = TRUE,
                                  !.connected = TRUE]
         IN  [L1 EXCEPT !.subs = @ \cup {code}]

\* src/src ws_ticks, action "subscribe" (lines 175-216).  Market closed:
\* send_last_close (lines 101-121) answers from the cache when it has the
\* quote and else sets state.breeze to the runtime service of get_breeze(),
\* the object the stream manager holds as well.  Market open: the manager's
\* subscribe is called twice.
LegacyWsTicksSubscribe ==
    /\ legacy_pc = "idle"
    /\ \E code \in {"NIFTY"}, open \in BOOLEAN, cached \in BOOLEAN,
          ok1 \in BOOLEAN, ok2 \in BOOLEAN :
          /\ legacy_state_symbol' = code
          /\ IF open
             THEN LET L == legacy_subscribe(legacy_subscribe(LegacySvc, code, session, ok1),
                                            code, session, ok2)
                  IN  /\ legacy_connected' = L.connected
                      /\ legacy_onTicks' = L.onTicks
                      /\ legacy_wsOpen' = L.wsOpen
                      /\ legacy_subscriptions' = L.subs
                      /\ UNCHANGED legacy_state_breeze
             ELSE /\ legacy_state_breeze' = IF cached THEN legacy_state_breeze
                                            ELSE legacy_state_breeze \/ session
                  /\ UNCHANGED <<legacy_connected, legacy_onTicks, legacy_wsOpen,
                                 legacy_subscriptions>>
    /\ UNCHANGED <<session, connVars, histVars, regVars, fanVars, cbVars, depthVars, stateVars,
                   legacy_pc>>

\* src/src ws_ticks, action "unsubscribe" (lines 258-282): with a symbol and
\* state.breeze set, unsubscribe_feeds on state.breeze.client, then
\* `state.breeze.client.on_ticks = None`, then the manager's unsubscribe;
\* unsubscribe_feeds raising ends the action before the assignment
LegacyWsTicksUnsubscribe ==
    /\ legacy_pc = "idle"
    /\ \E feedOk \in BOOLEAN :
          IF legacy_state_symbol # "" /\ legacy_state_breeze /\ feedOk
          THEN /\ legacy_onTicks' = FALSE
               /\ legacy_subscriptions' = legacy_subscriptions \ {legacy_state_symbol}
               /\ legacy_state_symbol' = ""
               /\ UNCHANGED <<legacy_connected, legacy_wsOpen, legacy_state_breeze>>
          ELSE UNCHANGED <<legacy_connected, legacy_onTicks, legacy_wsOpen,
                           legacyClientVars>>
    /\ UNCHANGED <<session, connVars, histVars, regVars, fanVars, cbVars, depthVars, stateVars,
                   legacy_pc>>

(***************************************************************************)
(* Text values.  An expiry text is a date in one of the textual forms the  *)
(* code meets:                                                             *)
(*   "dmy"   DD-Mon-YYYY                 13-Feb-2025                       *)
(*   "isoT"  YYYY-MM-DDT06:00:00.000Z    2025-02-13T06:00:00.000Z          *)
(*   "iso"   YYYY-MM-DD                  2025-02-13                        *)
(*   "dmy10" the first 10 characters of the dmy form   13-Feb-202          *)
(* Date 1 is 2025-02-13 and date 2 is 2025-02-20.                          *)
(***************************************************************************)
Dates == {1, 2}
NoExp == [d |-> 0, f |-> "none"]
Exp(d, f) == [d |-> d, f |-> f]

\* datetime.strptime over ("%d-%b-%Y", "%Y-%m-%dT%H:%M:%S.%fZ", "%Y-%m-%d")
Parses(e) == e.f \in {"dmy", "isoT", "iso"}

\* parsed.strftime("%Y-%m-%dT06:00:00.000Z"), else the text as given
IsoExpiry(e) == IF Parses(e) THEN Exp(e.d, "isoT") ELSE e

\* text[:10]
Slice10(e) ==
    CASE e.f = "isoT"  -> Exp(e.d, "iso")
      [] e.f = "dmy"   -> Exp(e.d, "dmy10")
      [] OTHER         -> e

\* "CALL" if right.upper() in ("CE", "CALL") else "PUT"
RightTxt(r) == IF r \in {"ce", "CE", "call", "CALL"} THEN "CALL" ELSE "PUT"

\* stock codes a client may send; NumericCodes match r"\d+", TokenCodes match
\* r"^\d+\.\d+!.+$"
NumericCodes == {"2885"}
TokenCodes == {"4.1!2885", "1.1!2885"}
\* f"{prefix}{code}" with prefix "4.1!" on NSE and "1.1!" elsewhere
TokenCode(ex, code) == IF ex = "NSE" THEN "4.1!2885" ELSE "1.1!2885"

(***************************************************************************)
(* Registry keys and records.  A key is the text of a dict key; an option  *)
(* alias f"{code}|{expiry}|{right}|{strike}" is kept as its four parts.    *)
(***************************************************************************)
CodeKey(code) == <<"code", code, NoExp, "", 0>>
OptAlias(code, e, rtxt, strike) == <<"opt", code, e, rtxt, strike>>

HasKey(subs, k) == k \in DOMAIN subs
\* self._subscriptions[k] = rec
Put(subs, k, rec) == [x \in DOMAIN subs \cup {k} |-> IF x = k THEN rec ELSE subs[x]]
\* self._subscriptions.pop(k, None)
Pop(subs, k) == [x \in DOMAIN subs \ {k} |-> subs[x]]

PlainRecord(ex, prod, code) ==
    [exchange_code |-> ex, product_type |-> prod, alias |-> CodeKey(code),
     stock_code |-> "", expiry_date |-> NoExp, strike_price |-> 0, right |-> "",
     subscription_type |-> ""]

OptionRecord(d, alias, subtype) ==
    [exchange_code |-> d.exchange_code, product_type |-> d.product_type,
     alias |-> alias, stock_code |-> d.stock_code,
     expiry_date |-> IsoExpiry(d.expiry_date), strike_price |-> d.strike_price,
     right |-> d.right, subscription_type |-> subtype]

(***************************************************************************)
(* Upstream calls: svc.client.subscribe_feeds / unsubscribe_feeds.         *)
(***************************************************************************)
FeedCall(op, kind, ex, code, e, strike, right, prod, depth, quotes) ==
    [op |-> op, kind |-> kind, exchange_code |-> ex, stock_code |-> code,
     expiry_date |-> e, strike_price |-> strike, right |-> right,
     product_type |-> prod, get_market_depth |-> depth,
     get_exchange_quotes |-> quotes]

TokenCall(op, token) ==
    FeedCall(op, "token", "", token, NoExp, 0, "", "", FALSE, FALSE)

(***************************************************************************)
(* The service as a value: the fields its synchronous methods read and     *)
(* write.  A method is an operator from a service value (and the inputs    *)
(* the environment decides) to the service value it leaves and whether it  *)
(* raised.                                                                 *)
(***************************************************************************)
Svc == [breeze |-> breeze, connected |-> connected, onTicks |-> onTicks,
        registered |-> registered,
        wsOpen |-> wsOpen, subs |-> subscriptions, up |-> upstream]

Ret(S, raised) == [s |-> S, raised |-> raised]

\* connect() run to its end inside another method: `ok` says whether one of
\* the ws_connect() attempts succeeds
connect_run(S, sess, ok) ==
    IF S.connected THEN Ret(S, FALSE)
    ELSE IF ~(S.breeze \/ sess) THEN Ret(S, TRUE)
    ELSE LET S1 == [S EXCEPT !.breeze = TRUE, !.onTicks = TRUE,
                             !.registered = install_on_ticks(@)]
         IN  IF ok
             THEN Ret([S1 EXCEPT !.connected = TRUE, !.wsOpen = TRUE], FALSE)
             ELSE Ret(S1, TRUE)

\* the prologue shared by the subscribe methods:
\*   svc = self._ensure_breeze(); if not svc: raise
\*   if not self._connected: self.connect()
ensure_connected(S, sess, ok) ==
    IF ~(S.breeze \/ sess) THEN Ret(S, TRUE)
    ELSE LET S1 == [S EXCEPT !.breeze = TRUE]
         IN  IF S1.connected THEN Ret(S1, FALSE) ELSE connect_run(S1, sess, ok)

\* the registry writes of subscribe_option: the keys alias_iso, alias_raw and
\* alias_iso again, each holding a record whose alias is its key
option_keys(d) ==
    <<OptAlias(d.stock_code, IsoExpiry(d.expiry_date), RightTxt(d.right), d.strike_price),
      OptAlias(d.stock_code, d.expiry_date, RightTxt(d.right), d.strike_price),
      OptAlias(d.stock_code, IsoExpiry(d.expiry_date), RightTxt(d.right), d.strike_price)>>

RECURSIVE put_all(_, _, _, _)
put_all(subs, keys, d, subtype) ==
    IF keys = << >> THEN subs
    ELSE put_all(Put(subs, Head(keys), OptionRecord(d, Head(keys), subtype)),
                 Tail(keys), d, subtype)

\* subscribe_option(d) / subscribe_option_market_depth(d): `depth` tells them
\* apart, `feedOk` says whether subscribe_feeds returns
subscribe_option_impl(S, d, depth, sess, ok, feedOk) ==
    LET pre == ensure_connected(S, sess, ok)
        S1 == pre.s
        call == FeedCall("subscribe", "option", d.exchange_code, d.stock_code,
                         d.expiry_date, d.strike_price, d.right, d.product_type,
                         depth, ~depth)
    IN  IF pre.raised THEN pre
        ELSE IF ~feedOk THEN Ret(S1, TRUE)
        ELSE Ret([S1 EXCEPT !.up = Append(@, call),
                            !.subs = put_all(@, option_keys(d), d,
                                       IF depth THEN "market_depth" ELSE "")],
                 FALSE)

subscribe_option(S, d, sess, ok, feedOk) ==
    subscribe_option_impl(S, d, FALSE, sess, ok, feedOk)

subscribe_option_market_depth(S, d, sess, ok, feedOk) ==
    subscribe_option_impl(S, d, TRUE, sess, ok, feedOk)

\* subscribe(stock_code, exchange_code, product_type)
subscribe(S, code, ex, prod, sess, ok, feedOk) ==
    LET pre == ensure_connected(S, sess, ok)
        S1 == pre.s
        token == TokenCode(ex, code)
        tokenRec == PlainRecord("TOKEN", prod, code)
        \* the numeric-token path writes the record, then calls upstream
        S2 == IF code \in NumericCodes
              THEN [S1 EXCEPT !.subs = Put(@, CodeKey(token), tokenRec)]
              ELSE S1
        S3 == [S2 EXCEPT !.subs = Put(@, CodeKey(code), PlainRecord(ex, prod, code))]
        plainCall == IF code \in TokenCodes
                     THEN TokenCall("subscribe", code)
                     ELSE FeedCall("subscribe", "plain", ex, code, NoExp, 0, "",
                                   prod, FALSE, TRUE)
    IN  IF pre.raised THEN pre
        ELSE IF code = "" THEN Ret(S1, FALSE)
        ELSE IF code \in NumericCodes /\ feedOk
        THEN Ret([S2 EXCEPT !.up = Append(@, TokenCall("subscribe", token))], FALSE)
        ELSE IF feedOk
        THEN Ret([S3 EXCEPT !.up = Append(@, plainCall)], FALSE)
        ELSE Ret(S3, FALSE)

\* the option records of the registry
OptionKeys(subs) == {k \in DOMAIN subs : subs[k].product_type = "options"}

\* sub.get("stock_code", "NIFTY"): a record written without the field (its
\* stock_code is "" here) yields the default
UnsubCall(rec) ==
    FeedCall("unsubscribe", "option", rec.exchange_code,
             IF rec.stock_code = "" THEN "NIFTY" ELSE rec.stock_code,
             rec.expiry_date, rec.strike_price, rec.right, "options", FALSE, TRUE)

\* the keys in some order: iteration order of the dict does not matter to
\* what is left, only to the order of the upstream calls
RECURSIVE SeqOfSet(_)
SeqOfSet(T) ==
    IF T = {} THEN << >>
    ELSE LET x == CHOOSE y \in T : TRUE IN <<x>> \o SeqOfSet(T \ {x})

RECURSIVE sweep(_, _, _)
sweep(S, keys, feedOk) ==
    IF keys = << >> THEN S
    ELSE LET k == Head(keys)
             S1 == [S EXCEPT !.subs = Pop(@, k),
                             !.up = IF feedOk THEN Append(@, UnsubCall(S.subs[k]))
                                    ELSE @]
         IN  sweep(S1, Tail(keys), feedOk)

\* unsubscribe_all_options()
unsubscribe_all_options(S, feedOk) ==
    IF ~S.breeze THEN S
    ELSE sweep(S, SeqOfSet(OptionKeys(S.subs)), feedOk)

\* unsubscribe_options_except(expiry_date_iso): keep = expiry_date_iso[:10]
\* (already sliced by the caller; slicing twice changes nothing)
unsubscribe_options_except(S, keep, feedOk) ==
    IF ~S.breeze THEN S
    ELSE LET gone == {k \in OptionKeys(S.subs) :
                        ~(Slice10(S.subs[k].expiry_date) # NoExp
                          /\ Slice10(S.subs[k].expiry_date) = Slice10(keep))}
         IN  sweep(S, SeqOfSet(gone), feedOk)

\* the variables of the service take the fields of a service value
SetSvc(S) ==
    /\ breeze' = S.breeze
    /\ connected' = S.connected
    /\ onTicks' = S.onTicks
    /\ registered' = S.registered
    /\ wsOpen' = S.wsOpen
    /\ subscriptions' = S.subs
    /\ upstream' = S.up

(***************************************************************************)
(* Registry operations as steps of the event loop.  No method runs while   *)
(* a connect() call is under way: connect() blocks the loop.               *)
(***************************************************************************)
Underlyings == {"NIFTY"}
Strikes == {23600}
OptDesc(ex, e, strike, right) ==
    [stock_code |-> "NIFTY", exchange_code |-> ex, expiry_date |-> e,
     strike_price |-> strike, right |-> right, product_type |-> "options"]
\* the contracts the model subscribes: one contract in both expiry spellings,
\* on both exchanges, the other side of it, and the same strike a week later
OptionDescriptors ==
    {OptDesc("NFO", Exp(1, "dmy"), 23600, "call"),
     OptDesc("NFO", Exp(1, "isoT"), 23600, "call"),
     OptDesc("BSE", Exp(1, "dmy"), 23600, "call"),
     OptDesc("NFO", Exp(1, "dmy"), 23600, "put"),
     OptDesc("NFO", Exp(2, "dmy"), 23600, "call")}
PlainCodes == {"NIFTY", "2885"}

NoDesc == OptDesc("", NoExp, 0, "")
\* a completed call: the method, its stock code or option descriptor, whether
\* it raised; `flip` changes with every call
Done(op, code, d, raised, flip) ==
    [op |-> op, code |-> code, d |-> d, raised |-> raised, flip |-> flip,
     key |-> CodeKey(""), items |-> << >>, env |-> << >>]

IsCall == lastCall'.flip # lastCall.flip

RegistryStep(op, code, d, r) ==
    /\ SetSvc(r.s)
    /\ lastCall' = Done(op, code, d, r.raised, 1 - lastCall.flip)
    /\ UNCHANGED <<session, pc, attempt, histVars, fanVars, legacyVars, cbVars, depthVars, stateVars>>

CanCall == pc = "idle" /\ Len(upstream) < MaxUpstream

SubscribeOption ==
    /\ CanCall
    /\ \E d \in OptionDescriptors, ok \in BOOLEAN, feedOk \in BOOLEAN :
          RegistryStep("subscribe_option", "", d,
                       subscribe_option(Svc, d, session, ok, feedOk))

SubscribeOptionMarketDepth ==
    /\ CanCall
    /\ \E d \in OptionDescriptors, ok \in BOOLEAN, feedOk \in BOOLEAN :
          RegistryStep("subscribe_option_market_depth", "", d,
                       subscribe_option_market_depth(Svc, d, session, ok, feedOk))

Subscribe ==
    /\ CanCall
    /\ \E code \in PlainCodes, ok \in BOOLEAN, feedOk \in BOOLEAN :
          RegistryStep("subscribe", code, NoDesc,
                       subscribe(Svc, code, "NSE", "cash", session, ok, feedOk))

UnsubscribeAllOptions ==
    /\ CanCall
    /\ \E feedOk \in BOOLEAN :
          RegistryStep("unsubscribe_all_options", "", NoDesc,
                       Ret(unsubscribe_all_options(Svc, feedOk), FALSE))

UnsubscribeOptionsExcept ==
    /\ CanCall
    /\ \E d \in Dates, feedOk \in BOOLEAN :
          RegistryStep("unsubscribe_options_except", "", OptDesc("", Exp(d, "iso"), 0, ""),
                       Ret(unsubscribe_options_except(Svc, Exp(d, "iso"), feedOk), FALSE))

(***************************************************************************)
(* unsubscribe, unsubscribe_many and subscribe_many.                       *)
(***************************************************************************)
\* text.upper() of an expiry text: only the month name of "13-Feb-2025" has
\* lower-case letters
UpperExp(e) == IF e.f = "dmy" THEN Exp(e.d, "DMY") ELSE e
\* key.upper()
UpperKey(k) == <<k[1], k[2], UpperExp(k[3]), k[4], k[5]>>
\* the text of a key, as the stock_code argument of an upstream call
KeyText(k) == IF k[1] = "code" THEN k[2] ELSE ToString(k)
\* '!' in code
HasBang(k) == k[1] = "code" /\ k[2] \in TokenCodes

\* unsubscribe(stock_code)
unsubscribe(S, key, feedOk) ==
    LET code == UpperKey(key)
    IN  IF ~S.breeze THEN S
        ELSE IF ~HasKey(S.subs, code) THEN S
        ELSE LET sub == S.subs[code]
                 call == IF sub.exchange_code = "TOKEN" \/ HasBang(code)
                         THEN TokenCall("unsubscribe", KeyText(code))
                         ELSE FeedCall("unsubscribe", "plain", sub.exchange_code,
                                       KeyText(code), NoExp, 0, "",
                                       sub.product_type, FALSE, FALSE)
             IN  [S EXCEPT !.subs = Pop(@, code),
                           !.up = IF feedOk THEN Append(@, call) ELSE @]

\* unsubscribe_many(items): the items' stock codes in order, empty ones skipped
RECURSIVE unsubscribe_many(_, _, _)
unsubscribe_many(S, keys, feedOk) ==
    IF keys = << >> THEN S
    ELSE unsubscribe_many(IF KeyText(Head(keys)) = "" THEN S
                          ELSE unsubscribe(S, Head(keys), feedOk),
                          Tail(keys), feedOk)

\* the items of a batch: a token item carries `token`, an option item carries
\* product_type "options" with expiry, strike and right, any other is plain
TokenItem(tok, ex) ==
    [token |-> tok, stock_code |-> "", exchange_code |-> ex, product_type |-> "cash",
     expiry_date |-> NoExp, strike_price |-> 0, right |-> ""]
PlainItem(code, ex) ==
    [token |-> "", stock_code |-> code, exchange_code |-> ex, product_type |-> "cash",
     expiry_date |-> NoExp, strike_price |-> 0, right |-> ""]
OptionItem(d) ==
    [token |-> "", stock_code |-> d.stock_code, exchange_code |-> d.exchange_code,
     product_type |-> "options", expiry_date |-> d.expiry_date,
     strike_price |-> d.strike_price, right |-> d.right]

is_token_item(it) == it.token # ""
is_option_item(it) ==
    /\ ~is_token_item(it) /\ it.stock_code # ""
    /\ it.product_type = "options" /\ it.expiry_date # NoExp
    /\ it.strike_price # 0 /\ it.right # ""
is_regular_item(it) ==
    ~is_token_item(it) /\ it.stock_code # "" /\ ~is_option_item(it)

\* the three lists the first loop of subscribe_many builds
token_list(items) == SelectSeq(items, is_token_item)
regular(items) == SelectSeq(items, is_regular_item)
options_items(items) == SelectSeq(items, is_option_item)

\* X.Y!TOKEN of a token item
item_token(it) ==
    IF it.token \in TokenCodes THEN it.token ELSE TokenCode(it.exchange_code, it.token)

\* the first loop writes the record of every token item before any upstream
\* call: alias = provided alias, else the stock code, else the token
RECURSIVE token_records(_, _)
token_records(subs, toks) ==
    IF toks = << >> THEN subs
    ELSE LET it == Head(toks)
             t == item_token(it)
         IN  token_records(Put(subs, CodeKey(t),
                               PlainRecord("TOKEN", "cash",
                                   IF it.stock_code # "" THEN it.stock_code ELSE t)),
                           Tail(toks))

\* svc.client.subscribe_feeds(stock_token=token_list): one call that asks
\* for every token of the list, logged as one entry per token
RECURSIVE token_calls(_)
token_calls(toks) ==
    IF toks = << >> THEN << >>
    ELSE <<TokenCall("subscribe", item_token(Head(toks)))>> \o token_calls(Tail(toks))

\* `for code, ex, prod in regular: try: self.subscribe(...) except: continue`
RECURSIVE subscribe_regular(_, _, _, _, _)
subscribe_regular(S, its, sess, ok, feedOk) ==
    IF its = << >> THEN S
    ELSE LET it == Head(its)
             r == subscribe(S, it.stock_code, it.exchange_code, it.product_type,
                            sess, ok, feedOk)
         IN  subscribe_regular(r.s, Tail(its), sess, ok, feedOk)

\* the record subscribe_many writes for an option item: exchange, product
\* and alias only
BatchOptionRecord(it, alias) ==
    [exchange_code |-> it.exchange_code, product_type |-> "options",
     alias |-> alias, stock_code |-> "", expiry_date |-> NoExp, strike_price |-> 0,
     right |-> "", subscription_type |-> ""]

\* the loop over options_items: subscribe_feeds, then the record under
\* alias.upper(); an exception is logged and the loop goes on
RECURSIVE subscribe_batch_options(_, _, _)
subscribe_batch_options(S, its, feedOk) ==
    IF its = << >> THEN S
    ELSE LET it == Head(its)
             alias == OptAlias(it.stock_code, it.expiry_date, RightTxt(it.right),
                               it.strike_price)
             call == FeedCall("subscribe", "option", it.exchange_code, it.stock_code,
                              it.expiry_date, it.strike_price, it.right, "options",
                              TRUE, TRUE)
             S1 == IF feedOk
                   THEN [S EXCEPT !.up = Append(@, call),
                                  !.subs = Put(@, UpperKey(alias),
                                               BatchOptionRecord(it, alias))]
                   ELSE S
         IN  subscribe_batch_options(S1, Tail(its), feedOk)

\* what the environment decides during one subscribe_many call: whether the
\* connect() of the token part and the later connect() calls succeed, and
\* whether the batched token call and the later feed calls return
Env(okTok, okRest, feedTok, feedRest) ==
    [okTok |-> okTok, okRest |-> okRest, feedTok |-> feedTok, feedRest |-> feedRest]

\* `if token_list:` of subscribe_many
token_part(S, items, sess, e) ==
    LET pre == ensure_connected(S, sess, e.okTok)
    IN  IF token_list(items) = << >> THEN Ret(S, FALSE)
        ELSE IF pre.raised THEN pre
        ELSE IF e.feedTok
        THEN Ret([pre.s EXCEPT !.up = @ \o token_calls(token_list(items))], FALSE)
        ELSE Ret(pre.s, FALSE)

\* `if options_items:` of subscribe_many
options_part(S, items, sess, e) ==
    LET pre == ensure_connected(S, sess, e.okRest)
    IN  IF options_items(items) = << >> THEN Ret(S, FALSE)
        ELSE IF pre.raised THEN pre
        ELSE Ret(subscribe_batch_options(pre.s, options_items(items), e.feedRest),
                 FALSE)

\* subscribe_many(items)
subscribe_many(S, items, sess, e) ==
    LET S0 == [S EXCEPT !.subs = token_records(@, token_list(items))]
        t == token_part(S0, items, sess, e)
        S2 == subscribe_regular(t.s, regular(items), sess, e.okRest, e.feedRest)
    IN  IF t.raised THEN t
        ELSE options_part(S2, items, sess, e)

\* the reply of ws_ticks to a subscribe_many message: one "subscribed" per
\* item with a stock code, or one error for the whole message
subscribe_many_reply(items, raised) ==
    IF raised THEN <<"error">>
    ELSE [i \in 1..Len(SelectSeq(items, LAMBDA it : it.stock_code # "")) |-> "subscribed"]

\* a call whose record of completion carries more than a code or a descriptor
CallStep(done, r) ==
    /\ SetSvc(r.s)
    /\ lastCall' = [done EXCEPT !.raised = r.raised, !.flip = 1 - lastCall.flip]
    /\ UNCHANGED <<session, pc, attempt, histVars, fanVars, legacyVars, cbVars, depthVars, stateVars>>

\* the keys a caller unsubscribes: the keys of the registry and stock codes
\* that may or may not be subscribed
UnsubKeys == DOMAIN subscriptions \cup {CodeKey(c) : c \in PlainCodes \cup {"RELIANCE"}}

Unsubscribe ==
    /\ CanCall
    /\ \E k \in UnsubKeys, feedOk \in BOOLEAN :
          CallStep([Done("unsubscribe", "", NoDesc, FALSE, 0)
                       EXCEPT !.key = k, !.env = <<feedOk>>],
                   Ret(unsubscribe(Svc, k, feedOk), FALSE))

UnsubscribeMany ==
    /\ CanCall
    /\ \E k1 \in DOMAIN subscriptions, c \in PlainCodes, feedOk \in BOOLEAN :
          LET k2 == CodeKey(c)
          IN  CallStep([Done("unsubscribe_many", "", NoDesc, FALSE, 0)
                          EXCEPT !.items = <<k1, k2>>],
                      Ret(unsubscribe_many(Svc, <<k1, k2>>, feedOk), FALSE))

\* the batches a client sends: a mixed one, two options of different
\* expiries in the two spellings, and one option
Batches ==
    {<<OptionItem(OptDesc("NFO", Exp(1, "dmy"), 23600, "call"))>>,
     <<TokenItem("2885", "NSE"), PlainItem("NIFTY", "NSE"),
       OptionItem(OptDesc("NFO", Exp(1, "dmy"), 23600, "call"))>>,
     <<OptionItem(OptDesc("NFO", Exp(1, "isoT"), 23600, "call")),
       OptionItem(OptDesc("NFO", Exp(2, "dmy"), 23600, "call"))>>}

SubscribeMany ==
    /\ CanCall
    /\ \E items \in Batches, okTok \in BOOLEAN, okRest \in BOOLEAN,
          feedTok \in BOOLEAN, feedRest \in BOOLEAN :
          LET e == Env(okTok, okRest, feedTok, feedRest)
          IN  CallStep([Done("subscribe_many", "", NoDesc, FALSE, 0)
                           EXCEPT !.items = items, !.env = e],
                       subscribe_many(Svc, items, session, e))

(***************************************************************************)
(* Raw upstream ticks.  A field the payload does not carry is None: NoExp, *)
(* strike 0, right "".  `depth` says that the payload carries a non-empty  *)
(* depth list.                                                             *)
(***************************************************************************)
RawTick(code, e, strike, right, depth) ==
    [stock_code |-> code, stock_token |-> "", expiry_date |-> e,
     strike_price |-> strike, right |-> right, depth |-> depth, dict |-> TRUE]

RawTicks ==
    {RawTick("NIFTY", NoExp, 0, "", FALSE),             \* an index quote
     RawTick("NIFTY", Exp(1, "isoT"), 23600, "Call", FALSE),
     RawTick("NIFTY", Exp(2, "dmy"), 23600, "Call", FALSE),
     RawTick("NIFTY", NoExp, 23600, "", FALSE)}         \* strike, no right

\* the time between two ticks, in ms; the clock starts at the first tick
Gaps == {100, min_interval_ms}

\* on_ticks, lines 207-209: has_strike and has_right
Mut_is_option_tick(t) == t.strike_price # 0 \/ t.right # ""
is_option_tick(t) == t.strike_price # 0 /\ t.right # ""

\* on_ticks, lines 95-111: strptime over "%d-%b-%Y", "%Y-%m-%d", "%d/%m/%Y",
\* "%Y-%m-%dT%H:%M:%S.%fZ", then strftime("%Y-%m-%dT06:00:00.000Z")
Mut_formatted_expiry(e) == IF e.f \in {"iso", "isoT"} THEN Exp(e.d, "isoT") ELSE e
formatted_expiry(e) == IF e.f \in {"dmy", "iso", "isoT"} THEN Exp(e.d, "isoT") ELSE e

\* on_ticks, line 91
right_txt(r) ==
    IF r \in {"CE", "Ce", "ce", "CALL", "Call", "call"} THEN "CALL"
    ELSE IF r \in {"PE", "Pe", "pe", "PUT", "Put", "put"} THEN "PUT"
    ELSE r

\* on_ticks, lines 58-129: the symbol of the payload
tick_symbol(t, subs) ==
    IF t.expiry_date # NoExp /\ t.strike_price # 0 /\ t.right # ""
    THEN OptAlias(t.stock_code, formatted_expiry(t.expiry_date), right_txt(t.right),
                  t.strike_price)
    ELSE IF t.stock_token # "" /\ HasKey(subs, CodeKey(t.stock_token))
    THEN subs[CodeKey(t.stock_token)].alias
    ELSE IF t.stock_code # "" /\ HasKey(subs, CodeKey(t.stock_code))
    THEN subs[CodeKey(t.stock_code)].alias
    ELSE IF t.stock_code # "" THEN CodeKey(t.stock_code)
    ELSE CodeKey(t.stock_token)

\* on_ticks, lines 130-157: the payload handed to the broadcast.  `n` (the
\* number of the tick), `at` (its arrival time), `pins` (the pinned expiry
\* of every connection at its arrival), `resolved` (whether its symbol was
\* a key of the registry at its arrival) and `tick_expiry` (the expiry the
\* feed sent, which no handler rewrites) are what the model records of it.
Payload(n, t, subs, at, pins) ==
    [n |-> n, symbol |-> tick_symbol(t, subs), expiry_date |-> t.expiry_date,
     strike_price |-> t.strike_price, right |-> t.right, depth |-> t.depth,
     option |-> is_option_tick(t), at |-> at, pins |-> pins,
     tick_expiry |-> t.expiry_date,
     resolved |-> HasKey(subs, tick_symbol(t, subs))]

\* upsert_quote(symbol, payload): the row of the table when the database
\* takes the statement; _MEM_CACHE when no engine is configured and when
\* the database raised.  C is the pair of stores, n the tick stored.
upsert_quote(C, symbol, n, configured, up) ==
    IF configured /\ up
    THEN [C EXCEPT !.db = Put(@, UpperKey(symbol), n)]
    ELSE [C EXCEPT !.mem = Put(@, UpperKey(symbol), n)]

\* get_cached_quote(symbol): the row if the database answers and has one,
\* else _MEM_CACHE.get(symbol.upper()); 0 stands for None
NoQuote == 0
mem_get(C, symbol) ==
    IF UpperKey(symbol) \in DOMAIN C.mem THEN C.mem[UpperKey(symbol)] ELSE NoQuote
get_cached_quote(C, symbol, configured, up) ==
    IF configured /\ up /\ UpperKey(symbol) \in DOMAIN C.db
    THEN C.db[UpperKey(symbol)]
    ELSE mem_get(C, symbol)

\* the two stores of the cache as one value
Cache == [db |-> db, mem |-> mem_cache]

\* the objects of the service that on_ticks reads on the SDK's thread, not
\* inside a coroutine it hands to the loop: self._subscriptions for the
\* alias (lines 76-82), and for an option tick with a loop set the list
\* self._option_tick_handlers it iterates (lines 218-219)
on_ticks_reads(t, loop) ==
    {"_subscriptions"} \cup
    (IF loop /\ is_option_tick(t) THEN {"_option_tick_handlers"} ELSE {})

\* the contract an upstream call names, whatever the spelling of its expiry
Contract(c) ==
    <<c.kind, c.exchange_code, c.stock_code, c.expiry_date.d, c.strike_price,
      RightTxt(c.right)>>

\* the i-th upstream call is a subscription no later call has cancelled
Live(i) ==
    /\ upstream[i].op = "subscribe"
    /\ \A j \in (i + 1)..Len(upstream) :
           ~(upstream[j].op = "unsubscribe"
             /\ Contract(upstream[j]) = Contract(upstream[i]))

\* the feed delivers a tick only for an instrument it is subscribed to
Subscribed(t) ==
    \E i \in 1..Len(upstream) :
        /\ Live(i)
        /\ upstream[i].stock_code = t.stock_code
        /\ (upstream[i].kind = "option") =
               (t.expiry_date # NoExp \/ t.strike_price # 0 \/ t.right # "")
        /\ t.expiry_date # NoExp => upstream[i].expiry_date.d = t.expiry_date.d

Coroutine(kind, w, payload) == [kind |-> kind, w |-> w, payload |-> payload]

RECURSIVE handler_calls(_, _)
handler_calls(hs, payload) ==
    IF hs = << >> THEN << >>
    ELSE <<Coroutine("handler", Head(hs), payload)>> \o handler_calls(Tail(hs), payload)

\* on_ticks, lines 205-227: what the callback schedules onto the loop
scheduled(payload, hs) ==
    IF payload.option
    THEN <<Coroutine("_broadcast_options", 0, payload)>> \o handler_calls(hs, payload)
    ELSE <<Coroutine("_broadcast", 0, payload)>>

\* on_ticks, lines 53 and 228-229: the whole body is inside
\* `try: ... except Exception as exc: log_exception(exc, ...)`, and
\* log_exception only writes a log record, so nothing a tick raises leaves
\* the callback
Mut_on_ticks_escapes(t) == ~t.dict
on_ticks_escapes(t) == FALSE

\* on_ticks(ticks), the whole callback, dt ms after the tick before.  A
\* payload that is no dict raises at the first ticks.get (line 58), before
\* anything is cached or scheduled.
on_ticks(t, dt) ==
    /\ now' = now + dt
    /\ tickNo' = tickNo + 1
    /\ IF t.dict
       THEN LET payload == Payload(tickNo + 1, t, subscriptions, now + dt, selected)
                C == upsert_quote(Cache, payload.symbol, payload.n, dsn, dbUp)
            IN  /\ db' = C.db
                /\ mem_cache' = C.mem
                /\ lastTick' = Put(lastTick, payload.symbol, payload.n)
                /\ touched' = touched \cup on_ticks_reads(t, loopSet)
                /\ queue' = IF loopSet THEN queue \o scheduled(payload, handlers)
                            ELSE queue
                /\ UNCHANGED <<cbErrors, logged>>
       ELSE /\ cbErrors' = IF on_ticks_escapes(t) THEN cbErrors + 1 ELSE cbErrors
            /\ logged' = IF on_ticks_escapes(t) THEN logged ELSE logged \cup {tickNo + 1}
            /\ UNCHANGED <<db, mem_cache, lastTick, touched, queue>>

\* the upstream SDK calls on_ticks on its own thread
UpstreamTick ==
    /\ wsOpen /\ onTicks
    /\ requests + tickNo < MaxEvents
    /\ \E t \in RawTicks, dt \in (IF tickNo = 0 THEN {0} ELSE Gaps) :
        /\ Subscribed(t)
        /\ on_ticks(t, dt)
    /\ UNCHANGED <<session, connVars, histVars, regVars, legacyVars, depthVars, stateVars, dsn, dbUp, sock, endpoint,
                   clients, option_clients, handlers, selected, loopSet, pending,
                   inbox, targeted, sendFailed, loopErrors, requests>>

\* Frames the callback gets whatever the registry holds: on_ticks checks
\* nothing of the frame against the subscriptions, and the SDK hands it
\* every frame of the socket.
NotADict == [RawTick("", NoExp, 0, "", FALSE) EXCEPT !.dict = FALSE]
Unkeyed == RawTick("", NoExp, 0, "", FALSE)     \* e.g. {"ltp": 100.5}
TokenTick(token, depth) ==
    [RawTick("", NoExp, 0, "", depth) EXCEPT !.stock_token = token]
OptionTick(f) == RawTick("NIFTY", Exp(1, f), 23600, "Call", FALSE)
DepthOnly == RawTick("NIFTY", NoExp, 23600, "Call", TRUE)
FeedFrames ==
    {NotADict, Unkeyed, TokenTick("4.1!2885", FALSE), DepthOnly,
     OptionTick("dmy"), OptionTick("iso"), OptionTick("isoT")}

\* the SDK calls on_ticks with a frame of the socket
FeedFrame ==
    /\ wsOpen /\ onTicks
    /\ requests + tickNo < MaxEvents
    /\ \E t \in FeedFrames : on_ticks(t, 0)
    /\ UNCHANGED <<session, connVars, histVars, regVars, legacyVars, depthVars, stateVars, dsn, dbUp, sock, endpoint,
                   clients, option_clients, handlers, selected, loopSet, pending,
                   inbox, targeted, sendFailed, loopErrors, requests>>

(***************************************************************************)
(* _broadcast / _broadcast_options.  These two coroutines and the option   *)
(* handlers are the only code that sends a tick to a client:               *)
(* ws_ticks.forward_tick (stream.py, lines 434-453), the one reader of     *)
(* min_interval_ms and last_sent_ts_by_symbol, is defined and never        *)
(* called or registered, so no action runs it.                             *)
(***************************************************************************)
\* `coros.append(ws.send_text(data))` inside try: send_text is a coroutine
\* function, so the call builds the coroutine and raises nothing, whatever
\* the state of the socket
send_text_call_raises(w) == FALSE

\* a tick message as connection w gets it, with the path it took, the raw
\* fields of the tick and the pinned expiry of w at the tick's arrival and now
Message(w, payload, via, e) ==
    [n |-> payload.n, via |-> via, symbol |-> payload.symbol, expiry_date |-> e,
     strike_price |-> payload.strike_price, right |-> payload.right,
     at |-> payload.at, resolved |-> payload.resolved, depth |-> payload.depth,
     pin_then |-> payload.pins[w], pin |-> selected[w]]

SendTask(w, payload, via) == [w |-> w, payload |-> payload, via |-> via]

RECURSIVE send_tasks(_, _, _)
send_tasks(ws, payload, via) ==
    IF ws = << >> THEN << >>
    ELSE <<SendTask(Head(ws), payload, via)>> \o send_tasks(Tail(ws), payload, via)

\* the first step of a broadcast coroutine: the loop over list(set), which
\* drops the clients whose send_text call raised, and gather() over the rest
BroadcastStart(co) ==
    LET set == IF co.kind = "_broadcast" THEN clients ELSE option_clients
        dead == {w \in set : send_text_call_raises(w)}
        live == set \ dead
    IN  /\ clients' = IF co.kind = "_broadcast" THEN clients \ dead ELSE clients
        /\ option_clients' = IF co.kind = "_broadcast" THEN option_clients
                             ELSE option_clients \ dead
        /\ pending' = pending \o send_tasks(SeqOfSet(live), co.payload, co.kind)
        /\ targeted' = targeted \cup {<<co.payload.n, w>> : w \in live}
        /\ queue' = Tail(queue)
        /\ UNCHANGED <<inbox, sendFailed, loopErrors, requests>>

\* stream.py, lines 98-110: the expiry of a tick as the filter reads it
filter_norm(e) ==
    CASE e.f = "isoT" -> Exp(e.d, "iso")
      [] e.f = "dmy"  -> Exp(e.d, "iso")
      [] e.f = "iso"  -> e
      [] OTHER        -> Slice10(e)

\* stream.py, lines 91-97: tick.expiry_date, else the second part of a
\* symbol that contains '|'
filter_raw_exp(payload) ==
    IF payload.expiry_date # NoExp THEN payload.expiry_date
    ELSE IF payload.symbol[1] = "opt" THEN payload.symbol[3]
    ELSE NoExp

\* _forward_filtered_option_tick: Drop, or the expiry the message carries
Drop == [d |-> 0, f |-> "drop"]
forward_filtered(sel, payload) ==
    IF sel = NoExp THEN payload.expiry_date
    ELSE LET norm == filter_norm(filter_raw_exp(payload))
         IN  IF norm = NoExp /\ payload.depth THEN sel
             ELSE IF norm # NoExp /\ norm # sel THEN Drop
             ELSE payload.expiry_date

\* `tick['expiry_date'] = sel` writes into the dict every later handler call
\* for the same tick was scheduled with
RECURSIVE stamp(_, _, _)
stamp(q, n, e) ==
    IF q = << >> THEN << >>
    ELSE <<IF Head(q).payload.n = n /\ Head(q).kind = "handler"
           THEN [Head(q) EXCEPT !.payload.expiry_date = e]
           ELSE Head(q)>> \o stamp(Tail(q), n, e)

\* the per-connection forwarder, run as a scheduled coroutine: its own
\* try/except logs a failed send
HandlerRun(co) ==
    LET e == forward_filtered(selected[co.w], co.payload)
    IN  /\ inbox' = IF e # Drop /\ sock[co.w] = "open"
                    THEN [inbox EXCEPT ![co.w] = Append(@, Message(co.w, co.payload, "handler", e))]
                    ELSE inbox
        /\ queue' = IF e # Drop THEN stamp(Tail(queue), co.payload.n, e) ELSE Tail(queue)
        /\ UNCHANGED <<clients, option_clients, pending, targeted, sendFailed, loopErrors, requests>>

\* the loop runs the oldest scheduled coroutine up to its first await
LoopRun ==
    /\ queue # << >>
    /\ IF Head(queue).kind = "handler"
       THEN HandlerRun(Head(queue))
       ELSE BroadcastStart(Head(queue))
    /\ UNCHANGED <<session, connVars, histVars, regVars, legacyVars, cbVars, depthVars, stateVars, sock, endpoint,
                   handlers, selected, loopSet, now, tickNo, requests>>

\* gather(*coros, return_exceptions=True): a send that raises is a result
\* like any other, the other tasks are not touched
Mut_after_failed_send(tasks, i) ==
    SelectSeq(tasks, LAMBDA x : x.payload.n # tasks[i].payload.n)
RemoveAt(tasks, i) == SubSeq(tasks, 1, i - 1) \o SubSeq(tasks, i + 1, Len(tasks))
after_failed_send(tasks, i) == RemoveAt(tasks, i)
\* with return_exceptions=True gather() hands the exception of a failed send
\* back as a result instead of raising it into the broadcast
return_exceptions == TRUE

\* one send task finishes; sends to one socket finish in the order they
\* were created
LoopSend ==
    \E i \in 1..Len(pending) :
        /\ \A j \in 1..(i - 1) : pending[j].w # pending[i].w
        /\ LET task == pending[i]
           IN  IF sock[task.w] = "open"
               THEN /\ inbox' = [inbox EXCEPT ![task.w] =
                                   Append(@, Message(task.w, task.payload, task.via,
                                                     task.payload.expiry_date))]
                    /\ pending' = RemoveAt(pending, i)
                    /\ UNCHANGED <<sendFailed, loopErrors>>
               ELSE /\ sendFailed' = sendFailed \cup {<<task.payload.n, task.w>>}
                    /\ pending' = after_failed_send(pending, i)
                    /\ loopErrors' = IF return_exceptions THEN loopErrors
                                     ELSE loopErrors + 1
                    /\ UNCHANGED inbox
        /\ UNCHANGED <<session, connVars, histVars, regVars, legacyVars, cbVars, depthVars, stateVars, sock, endpoint,
                       clients, option_clients, handlers, selected, loopSet, queue,
                       now, tickNo, targeted, requests>>

(***************************************************************************)
(* The WebSocket endpoints /ws/ticks and /ws/options (routes/stream.py).   *)
(* Each step is the handling of one event of one connection, up to the     *)
(* next receive.  Only tick messages are recorded in the inbox.            *)
(***************************************************************************)
\* connections are told apart by their number only: the next one to connect
\* is the lowest unused
NextSocket(w) == sock[w] = "none" /\ \A v \in Sockets : v < w => sock[v] # "none"

\* register_client(ws, loop, is_option_client): the loop is set and the
\* socket goes into one of the two sets
Mut_register_client(w, is_option_client) ==
    /\ loopSet' = TRUE
    /\ option_clients' = option_clients \cup {w}
    /\ clients' = clients \cup {w}
register_client(w, is_option_client) ==
    /\ loopSet' = TRUE
    /\ option_clients' = IF is_option_client THEN option_clients \cup {w}
                         ELSE option_clients
    /\ clients' = IF is_option_client THEN clients ELSE clients \cup {w}

\* ws_ticks, lines 413-420: accept, set_loop, register_client
WsTicksConnect ==
    \E w \in Sockets :
        /\ NextSocket(w)
        /\ sock' = [sock EXCEPT ![w] = "open"]
        /\ endpoint' = [endpoint EXCEPT ![w] = "ticks"]
        /\ register_client(w, FALSE)
        /\ UNCHANGED <<session, connVars, histVars, regVars, legacyVars, cbVars, depthVars, stateVars,
                       handlers, selected, queue, pending, inbox,
                       now, tickNo, targeted, sendFailed, loopErrors, requests>>

\* ws_options, lines 43-128: accept, set_loop, register_client as an option
\* client, append the filtered forwarder to the handler list
WsOptionsConnect ==
    \E w \in Sockets :
        /\ NextSocket(w)
        /\ sock' = [sock EXCEPT ![w] = "open"]
        /\ endpoint' = [endpoint EXCEPT ![w] = "options"]
        /\ register_client(w, TRUE)
        /\ handlers' = Append(handlers, w)
        /\ selected' = [selected EXCEPT ![w] = NoExp]
        /\ UNCHANGED <<session, connVars, histVars, regVars, legacyVars, cbVars, depthVars, stateVars,
                       queue, pending, inbox, now, tickNo, targeted,
                       sendFailed, loopErrors, requests>>

\* a client request can be handled: no connect() call is blocking the loop
CanHandle(w, ep) ==
    /\ pc = "idle"
    /\ requests + tickNo < MaxEvents
    /\ sock[w] = "open" /\ endpoint[w] = ep

\* the peer goes away: from now on a send to the socket raises
PeerClose ==
    \E w \in Sockets :
        /\ sock[w] = "open"
        /\ sock' = [sock EXCEPT ![w] = "broken"]
        /\ UNCHANGED <<session, connVars, histVars, regVars, legacyVars, cbVars, depthVars, stateVars, endpoint,
                       clients, option_clients, handlers, selected, loopSet, queue,
                       pending, inbox, now, tickNo, targeted, sendFailed, loopErrors, requests>>

\* list.remove(x): the first occurrence
RECURSIVE remove_first(_, _)
remove_first(q, x) ==
    IF q = << >> THEN << >>
    ELSE IF Head(q) = x THEN Tail(q)
    ELSE <<Head(q)>> \o remove_first(Tail(q), x)

Mut_unregister_client(w) ==
    /\ clients' = clients \ {w}
    /\ option_clients' = option_clients
\* unregister_client(ws)
unregister_client(w) ==
    /\ clients' = clients \ {w}
    /\ option_clients' = option_clients \ {w}

\* the `finally` of ws_ticks (lines 637-640) and of ws_options (399-408),
\* entered when receive_text() raises on the broken socket
WsCleanup ==
    \E w \in Sockets :
        /\ sock[w] = "broken"
        /\ sock' = [sock EXCEPT ![w] = "closed"]
        /\ handlers' = IF endpoint[w] = "options" THEN remove_first(handlers, w)
                       ELSE handlers
        /\ unregister_client(w)
        /\ UNCHANGED <<session, connVars, histVars, regVars, legacyVars, cbVars, depthVars, stateVars, endpoint,
                       selected, loopSet, queue, pending, inbox, now, tickNo,
                       targeted, sendFailed, loopErrors, requests>>

\* what the clients of the model send: expiry texts, sides, stock codes
ClientExpiries == {Exp(1, "isoT"), Exp(2, "isoT")}
ClientRights == {"call"}
ClientCodes == {"NIFTY"}
\* whether the upstream calls made for a client request succeed
FeedOutcomes == {TRUE}

\* stream.py, lines 203-211: datetime.fromisoformat(...).strftime('%d-%b-%Y')
\* when the text contains 'T', else the text as sent
breeze_expiry(e) == IF e.f = "isoT" THEN Exp(e.d, "dmy") ELSE e

\* a run of subscribe_option calls that ends at the first one that raises
RECURSIVE subscribe_options_seq(_, _, _, _, _)
subscribe_options_seq(S, ds, sess, ok, feedOk) ==
    IF ds = << >> THEN Ret(S, FALSE)
    ELSE LET r == subscribe_option(S, Head(ds), sess, ok, feedOk)
         IN  IF r.raised THEN r
             ELSE subscribe_options_seq(r.s, Tail(ds), sess, ok, feedOk)

\* the (strike, side) pairs of one request on one exchange, in call order
requested(ex, e, right_req) ==
    (IF right_req \in {"call", "both"} THEN <<OptDesc(ex, e, 23600, "call")>> ELSE << >>)
    \o (IF right_req \in {"put", "both"} THEN <<OptDesc(ex, e, 23600, "put")>> ELSE << >>)

\* ws_options, action "subscribe_options" (lines 145-289) for one strike
subscribe_options_handler(S, expiry_date, right_req, sess, ok, unsubOk, feedOk) ==
    LET S1 == connect_run(S, sess, ok).s
        keep == Slice10(expiry_date)
        S2 == unsubscribe_options_except(S1, keep, unsubOk)
        nfo == subscribe_options_seq(S2, requested("NFO", breeze_expiry(expiry_date),
                                                   right_req), sess, ok, feedOk)
        bse == subscribe_options_seq(nfo.s, requested("BSE", breeze_expiry(expiry_date),
                                                      right_req), sess, ok, feedOk)
    IN  IF nfo.raised THEN nfo ELSE Ret(bse.s, FALSE)

\* the expiry of a request spelled as the feed spells it, next to the
\* spelling the front end sends
ClientTexts == {Exp(1, "dmy"), Exp(1, "isoT"), Exp(2, "isoT")}

\* ws_options, action "subscribe_options", for a request whose expiry is one
\* of `texts`
ws_options_subscribe(texts) ==
    \E w \in Sockets, e \in texts, right_req \in ClientRights,
       ok \in FeedOutcomes, unsubOk \in FeedOutcomes, feedOk \in FeedOutcomes :
        /\ CanHandle(w, "options")
        /\ requests' = requests + 1
        /\ selected' = [selected EXCEPT ![w] = Slice10(e)]
        /\ LET r == subscribe_options_handler(Svc, e, right_req, session, ok, unsubOk, feedOk)
           IN  /\ SetSvc(r.s)
               /\ lastCall' = Done("ws_options.subscribe_options", "",
                                   OptDesc("", e, 23600, right_req), r.raised,
                                   1 - lastCall.flip)
        /\ UNCHANGED <<session, pc, attempt, histVars, legacyVars, cbVars, depthVars, stateVars, sock, endpoint,
                       clients, option_clients, handlers, loopSet, queue, pending,
                       inbox, now, tickNo, targeted, sendFailed, loopErrors>>

WsOptionsSubscribe == ws_options_subscribe(ClientExpiries)

\* the same request from a client that may spell the expiry DD-Mon-YYYY
WsOptionsSubscribeText == ws_options_subscribe(ClientTexts)

\* ws_options, action "unsubscribe_options" (lines 291-305)
WsOptionsUnsubscribe ==
    \E w \in Sockets, feedOk \in FeedOutcomes :
        /\ CanHandle(w, "options")
        /\ requests' = requests + 1
        /\ SetSvc(unsubscribe_all_options(Svc, feedOk))
        /\ lastCall' = Done("ws_options.unsubscribe_options", "", NoDesc, FALSE,
                            1 - lastCall.flip)
        /\ UNCHANGED <<session, pc, attempt, histVars, legacyVars, cbVars, depthVars, stateVars, sock, endpoint,
                       clients, option_clients, handlers, selected, loopSet, queue,
                       pending, inbox, now, tickNo, targeted, sendFailed, loopErrors>>

\* ws_ticks, action "subscribe" with the market open (lines 498-542): the
\* manager's subscribe is called twice, its exceptions are caught
WsTicksSubscribe ==
    \E w \in Sockets, code \in ClientCodes, ok \in FeedOutcomes, feedOk \in FeedOutcomes :
        /\ CanHandle(w, "ticks")
        /\ requests' = requests + 1
        /\ LET r1 == subscribe(Svc, code, "NSE", "cash", session, ok, feedOk)
               r2 == subscribe(r1.s, code, "NSE", "cash", session, ok, feedOk)
           IN  /\ SetSvc(r2.s)
               /\ lastCall' = Done("ws_ticks.subscribe", code, NoDesc, FALSE,
                                   1 - lastCall.flip)
        /\ state_symbol' = [state_symbol EXCEPT ![w] = code]
        /\ UNCHANGED <<session, pc, attempt, histVars, legacyVars, cbVars, depthVars, sock, endpoint,
                       state_breeze, unsubscribed,
                       clients, option_clients, handlers, selected, loopSet, queue,
                       pending, inbox, now, tickNo, targeted, sendFailed, loopErrors>>

\* ws_ticks, action "unsubscribe" (lines 583-607): everything the action does
\* is under `if state.symbol and state.breeze`; state.breeze is the field of
\* the connection's ConnectionState, None when the state is constructed
\* (line 37), and no statement of the module assigns it
WsTicksUnsubscribe ==
    \E w \in Sockets, feedOk \in FeedOutcomes :
        /\ CanHandle(w, "ticks")
        /\ requests' = requests + 1
        /\ lastCall' = Done("ws_ticks.unsubscribe", state_symbol[w], NoDesc, FALSE,
                            1 - lastCall.flip)
        /\ IF state_symbol[w] # "" /\ state_breeze[w]
           THEN LET call == FeedCall("unsubscribe", "plain", "NSE", state_symbol[w],
                                     NoExp, 0, "", "cash", FALSE, FALSE)
                    S1 == [Svc EXCEPT !.up = Append(@, call), !.onTicks = FALSE]
                IN  /\ SetSvc(unsubscribe(S1, CodeKey(state_symbol[w]), feedOk))
                    /\ unsubscribed' = unsubscribed \cup {<<w, state_symbol[w]>>}
                    /\ state_symbol' = [state_symbol EXCEPT ![w] = ""]
           ELSE /\ SetSvc(Svc)
                /\ UNCHANGED <<unsubscribed, state_symbol>>
        /\ UNCHANGED <<session, pc, attempt, histVars, legacyVars, cbVars, depthVars, sock, endpoint,
                       state_breeze,
                       clients, option_clients, handlers, selected, loopSet, queue,
                       pending, inbox, now, tickNo, targeted, sendFailed, loopErrors>>

(***************************************************************************)
(* on_ticks, lines 159-198: the depth list of a tick turned into the bids  *)
(* and asks of the payload.  A row of the list is a dict; here it is the   *)
(* level its keys name (BestBuyRate-i, BestBuyQty-i, BestSellRate-i,       *)
(* BestSellQty-i) and the four values, None for a key the row lacks or     *)
(* carries as None.                                                        *)
(***************************************************************************)
None == 0
depth_levels == 5                       \* range(1, 6)
MaxRows == 2
DepthRow(i, bp, bq, sp, sq) == [level |-> i, bp |-> bp, bq |-> bq, sp |-> sp, sq |-> sq]
DepthRowSet ==
    {DepthRow(i, bp, bq, sp, sq) :
        i \in {1, 2}, bp \in {None, 99, 100}, bq \in {None, 50},
        sp \in {None, 101, 102}, sq \in {None, 30}}
DepthLists == UNION {[1..n -> DepthRowSet] : n \in 0..MaxRows}

\* `if px is not None and qty is not None`
Mut_both_present(px, qty) == px # None
both_present(px, qty) == px # None /\ qty # None

Level(px, qty) == [price |-> px, qty |-> qty]

\* the inner loop `for row in depth_rows` for level i, one side
RECURSIVE level_rows(_, _, _)
level_rows(i, rows, side) ==
    IF rows = << >> THEN << >>
    ELSE LET row == Head(rows)
             px == IF side = "buy" THEN row.bp ELSE row.sp
             qty == IF side = "buy" THEN row.bq ELSE row.sq
             has == row.level = i /\ (px # None \/ qty # None)
         IN  (IF has /\ both_present(px, qty) THEN <<Level(px, qty)>> ELSE << >>)
             \o level_rows(i, Tail(rows), side)

\* the outer loop `for i in range(1, 6)` from level i on
RECURSIVE levels_from(_, _, _)
levels_from(i, rows, side) ==
    IF i > depth_levels THEN << >>
    ELSE level_rows(i, rows, side) \o levels_from(i + 1, rows, side)

\* list.sort(key=price) and list.sort(key=price, reverse=True): stable, so
\* an element goes behind the elements of equal price already placed
RECURSIVE insert_sorted(_, _, _)
insert_sorted(x, done, desc) ==
    IF done = << >> THEN <<x>>
    ELSE IF (IF desc THEN Head(done).price >= x.price ELSE Head(done).price <= x.price)
         THEN <<Head(done)>> \o insert_sorted(x, Tail(done), desc)
         ELSE <<x>> \o done
RECURSIVE sort_by_price(_, _, _)
sort_by_price(todo, done, desc) ==
    IF todo = << >> THEN done
    ELSE sort_by_price(Tail(todo), insert_sorted(Head(todo), done, desc), desc)

\* payload["bids"] / payload["asks"]: the sorted list when it is not empty,
\* else what the payload had (None here: the tick carries no bids/asks keys)
NoLadder == [bids |-> << >>, asks |-> << >>, done |-> FALSE]
normalize_depth(rows) ==
    [bids |-> sort_by_price(levels_from(1, rows, "buy"), << >>, TRUE),
     asks |-> sort_by_price(levels_from(1, rows, "sell"), << >>, FALSE),
     done |-> TRUE]

\* the callback normalises the depth list of the tick it was handed
NormalizeDepth ==
    /\ ~ladder.done
    /\ ladder' = normalize_depth(depth_rows)
    /\ UNCHANGED <<session, connVars, histVars, regVars, fanVars, legacyVars, cbVars,
                   stateVars, depth_rows>>

\* no tick with a depth list is under normalisation
NoDepth == depth_rows = << >> /\ ladder = NoLadder

(***************************************************************************)
(* The connector on its own.                                               *)
(***************************************************************************)
InitService ==
    /\ session \in BOOLEAN
    /\ breeze = FALSE
    /\ connected = FALSE
    /\ onTicks = FALSE
    /\ registered = 0
    /\ wsOpen = FALSE
    /\ pc = "idle"
    /\ attempt = 0
    /\ connCalls = 0
    /\ tries = 0
    /\ waits = << >>
    /\ errs = << >>
    /\ outcome = "none"
    /\ raisedErr = "none"
    /\ prevOutcome = "none"
    /\ legacy_connected = FALSE
    /\ legacy_onTicks = FALSE
    /\ legacy_wsOpen = FALSE
    /\ legacy_pc = "idle"
    /\ legacy_subscriptions = {}
    /\ legacy_state_symbol = ""
    /\ legacy_state_breeze = FALSE
    /\ subscriptions = << >>
    /\ upstream = << >>
    /\ lastCall = Done("none", "", NoDesc, FALSE, 0)
    /\ sock = [w \in Sockets |-> "none"]
    /\ endpoint = [w \in Sockets |-> ""]
    /\ state_symbol = [w \in Sockets |-> ""]
    /\ state_breeze = [w \in Sockets |-> FALSE]
    /\ unsubscribed = {}
    /\ clients = {}
    /\ option_clients = {}
    /\ handlers = << >>
    /\ selected = [w \in Sockets |-> NoExp]
    /\ loopSet = FALSE
    /\ queue = << >>
    /\ pending = << >>
    /\ inbox = [w \in Sockets |-> << >>]
    /\ now = 0
    /\ tickNo = 0
    /\ targeted = {}
    /\ sendFailed = {}
    /\ loopErrors = 0
    /\ requests = 0
    /\ dbUp = TRUE
    /\ db = << >>
    /\ mem_cache = << >>
    /\ lastTick = << >>
    /\ touched = {}
    /\ cbErrors = 0
    /\ logged = {}

\* a deployment without a database: get_engine() returns None
InitConnector == InitService /\ dsn = FALSE /\ NoDepth

NextConnect ==
    \/ Login
    \/ Logout
    \/ ConnectCall
    \/ WsConnectOk
    \/ WsConnectFail
    \/ Backoff
    \/ LegacyConnectCall
    \/ LegacyWsConnect
    \/ LegacyRegister

SpecConnect == InitConnector /\ [][NextConnect]_vars

(***************************************************************************)
(* The registry: the subscribe and unsubscribe methods called in any       *)
(* order, each with its lazy connect.                                      *)
(***************************************************************************)
NextRegistry ==
    \/ Login
    \/ Logout
    \/ SubscribeOption
    \/ SubscribeOptionMarketDepth
    \/ Subscribe
    \/ UnsubscribeAllOptions
    \/ UnsubscribeOptionsExcept

SpecRegistry == InitConnector /\ [][NextRegistry]_vars

\* the registry under every method that adds or removes records
NextSubs ==
    \/ Login
    \/ Subscribe
    \/ SubscribeOption
    \/ SubscribeMany
    \/ Unsubscribe
    \/ UnsubscribeMany
    \/ UnsubscribeOptionsExcept

SpecSubs == InitConnector /\ [][NextSubs]_vars

(***************************************************************************)
(* The fan-out: clients connect to the two endpoints and subscribe, the    *)
(* feed delivers ticks on its own thread, the loop runs the broadcasts.    *)
(***************************************************************************)
NextFanout ==
    \/ WsTicksConnect
    \/ WsOptionsConnect
    \/ PeerClose
    \/ WsCleanup
    \/ WsOptionsSubscribe
    \/ WsTicksSubscribe
    \/ UpstreamTick
    \/ LoopRun
    \/ LoopSend

InitFanout == InitConnector /\ session

\* the database stops or starts taking connections and statements
DbFlip ==
    /\ dsn
    /\ dbUp' = ~dbUp
    /\ UNCHANGED <<session, connVars, histVars, regVars, fanVars, legacyVars, depthVars, stateVars, dsn, db,
                   mem_cache, lastTick, touched, cbErrors, logged>>

\* the callback and the cache: subscriptions made without any client, a
\* client that sets the loop, ticks, and a database that comes and goes
NextCache ==
    \/ Subscribe
    \/ WsTicksConnect
    \/ UpstreamTick
    \/ LoopRun
    \/ LoopSend
    \/ DbFlip

InitCache == InitService /\ session /\ dsn \in BOOLEAN /\ NoDepth

SpecCache == InitCache /\ [][NextCache]_vars

SpecFanout == InitFanout /\ [][NextFanout]_vars

\* the callback under any frame of the feed, with option clients that pin
\* an expiry
NextTicks ==
    \/ WsOptionsConnect
    \/ WsOptionsSubscribeText
    \/ FeedFrame
    \/ LoopRun
    \/ LoopSend

SpecTicks == InitFanout /\ [][NextTicks]_vars

\* the depth normalisation of the callback over every depth list of at most
\* MaxRows rows
InitDepth ==
    /\ InitService /\ session /\ dsn = FALSE
    /\ depth_rows \in DepthLists
    /\ ladder = NoLadder

NextDepth == NormalizeDepth

SpecDepth == InitDepth /\ [][NextDepth]_vars

(***************************************************************************)
(* Properties of connect().                                                *)
(***************************************************************************)
\* a step that is a connect() call
IsConnectCall == connCalls' = connCalls + 1

\* C7: connect() called while the connector is already connected is a no-op:
\* it opens no transport (no ws_connect call, no call left running), installs
\* no callback and leaves every field of the connector unchanged.
C7_ConnectIdempotent ==
    [][(IsConnectCall /\ connected) =>
          /\ ConnectorFields' = ConnectorFields
          /\ pc' = "idle"
          /\ tries' = 0
          /\ outcome' = "noop"]_vars

\* a second connect() call has returned as a no-op on an open connector
C7_Witness == outcome = "noop" /\ connected /\ wsOpen /\ connCalls >= 2

\* C8: whenever connect() is about to open the upstream transport, or the
\* transport is open, the tick callback is installed on the upstream client;
\* this is stated of both copies of the service.
C8_CallbackBeforeTransport ==
    /\ (pc = "open" \/ wsOpen) => onTicks
    /\ (legacy_pc = "open" \/ legacy_wsOpen) => legacy_onTicks

\* C9: one connect() call makes at most max_attempts ws_connect() calls, makes
\* none after one succeeded, and before attempt k+1 it has slept k times, the
\* k-th sleep being k * backoff_seconds.
C9_BoundedLinearBackoff ==
    /\ tries <= max_attempts
    /\ Len(waits) <= max_attempts - 1
    /\ \A k \in 1..Len(waits) : waits[k] = k * backoff_seconds_x10
    /\ Len(errs) <= tries /\ tries <= Len(errs) + 1
    /\ pc = "open" => (tries = attempt - 1 /\ Len(errs) = tries /\ Len(waits) = tries)
    /\ pc = "sleep" => (tries = attempt /\ Len(errs) = tries /\ Len(waits) = tries - 1)
    /\ outcome = "ok" => (pc = "idle" /\ connected /\ tries = Len(errs) + 1
                          /\ Len(waits) = Len(errs))
    /\ connected => pc = "idle"

\* a call that succeeded at its third attempt, after sleeping 1.5 s and 3.0 s
C9_Witness == outcome = "ok" /\ tries = 3 /\ waits = <<15, 30>>

\* C10 as stated: connect() raises only after max_attempts failed attempts,
\* and then raises the last attempt's error and leaves the connector
\* disconnected.
C10_ErrorOnlyAfterExhaustion ==
    outcome = "raised" =>
        /\ Len(errs) = max_attempts
        /\ raisedErr = errs[max_attempts]
        /\ ~connected

\* C10 amended: connect() raises either at once, with no attempt made, because
\* no session is available, or after exactly max_attempts failed attempts, and
\* then it raises the last attempt's error; in both cases the connector is left
\* disconnected with no call running, and the next connect() call that finds a
\* session starts again at attempt 1.
C10_RaiseCases ==
    outcome = "raised" =>
        /\ ~connected /\ ~wsOpen /\ pc = "idle"
        /\ \/ raisedErr = NoSession /\ tries = 0 /\ ~breeze
           \/ /\ tries = max_attempts
              /\ Len(errs) = max_attempts
              /\ raisedErr = errs[max_attempts]
              /\ Len(waits) = max_attempts - 1

C10_FreshRetry ==
    (outcome = "raised" /\ IsConnectCall /\ ensure_breeze) =>
        /\ pc' = "open" /\ attempt' = 1 /\ tries' = 0
        /\ waits' = << >> /\ errs' = << >>

C10_Amended == []C10_RaiseCases /\ [][C10_FreshRetry]_vars

\* a call that follows an exhausted call is itself exhausted at its 5th attempt
C10_Witness ==
    /\ outcome = "raised" /\ prevOutcome = "raised" /\ tries = max_attempts
    /\ raisedErr = "Timeout" /\ errs[1] = "ConnectionRefused"

\* C11: after any sequence of connect() calls (first call, repeated call,
\* a call that raised followed by a retry), the upstream client holds exactly
\* one tick callback when one is installed and never more than one, so a
\* tick is handed to the service once and not once per connect() call.
C11_SingleCallback ==
    /\ registered <= 1
    /\ onTicks <=> registered = 1
    /\ (pc = "open" \/ wsOpen) => registered = 1

\* a later connect() call opened the transport after an earlier call raised
C11_Witness ==
    /\ outcome = "ok" /\ prevOutcome = "raised" /\ connCalls >= 2
    /\ wsOpen /\ registered = 1

(***************************************************************************)
(* Properties of subscribe_option.                                         *)
(***************************************************************************)
\* the registry records that describe the contract of descriptor d
RecordsFor(subs, d) ==
    {k \in DOMAIN subs :
        /\ subs[k].product_type = "options"
        /\ subs[k].exchange_code = d.exchange_code
        /\ subs[k].stock_code = d.stock_code
        /\ subs[k].expiry_date.d = d.expiry_date.d
        /\ subs[k].strike_price = d.strike_price
        /\ subs[k].right = d.right}

\* a subscribe_option(d) call that returns right after an equal call returned
SecondEqualCall ==
    /\ IsCall
    /\ lastCall.op = "subscribe_option" /\ ~lastCall.raised
    /\ lastCall'.op = "subscribe_option" /\ ~lastCall'.raised
    /\ lastCall'.d = lastCall.d

\* C1: subscribe_option(d) called twice with equal parameters is idempotent:
\* the second call issues no upstream call and leaves the registry as it was,
\* holding exactly one record for d.
C1_SubscribeOptionIdempotent ==
    [][SecondEqualCall =>
          /\ upstream' = upstream
          /\ subscriptions' = subscriptions
          /\ Cardinality(RecordsFor(subscriptions', lastCall'.d)) = 1]_vars

\* the connections whose handler is in the handler list
HandlerOwners == {handlers[i] : i \in 1..Len(handlers)}

\* C17: once the cleanup of a connection has run (its receive loop ended by
\* a disconnect or another exception), the connection is in neither
\* broadcast set and its handler is not in the handler list; running the
\* cleanup again would therefore remove nothing: discard and the guarded
\* list.remove leave sets and list as they are.
C17_CleanupUnregisters ==
    \A w \in Sockets :
        sock[w] = "closed" =>
            /\ w \notin clients
            /\ w \notin option_clients
            /\ w \notin HandlerOwners
            /\ remove_first(handlers, w) = handlers

\* an options connection has been cleaned up while another one is still
\* registered with its handler
C17_Witness ==
    \E w \in Sockets, v \in Sockets :
        /\ sock[w] = "closed" /\ endpoint[w] = "options"
        /\ v \in option_clients /\ handlers = <<v>>

\* C19: for each connection and each alias, the ticks the connection gets
\* arrive in the order in which the callback got them from upstream: no
\* tick is delivered after a later tick of the same alias.
C19_DeliveryInArrivalOrder ==
    \A w \in Sockets :
        \A i \in 1..Len(inbox[w]), j \in 1..Len(inbox[w]) :
            (i < j /\ inbox[w][i].symbol = inbox[w][j].symbol)
                => inbox[w][i].n <= inbox[w][j].n

\* C18: the tick callback, which runs on the SDK's thread, never reads or
\* writes the state the event loop owns (client sets, handler list,
\* registry) itself; it only hands coroutines to the loop.
C18_CallbackTouchesNothing == touched = {}

\* C20: every tick is written to the last-known-quote cache under its alias,
\* whether or not a client is registered or a loop is set, and the entry the
\* cache returns for an alias is the latest tick of that alias (read while
\* the database, if one is configured, answers).
C20_CacheHoldsLatestTick ==
    (dsn => dbUp) =>
        \A a \in DOMAIN lastTick :
            get_cached_quote(Cache, a, dsn, dbUp) = lastTick[a]

(***************************************************************************)
(* Properties of the registry under subscribe, subscribe_many and          *)
(* unsubscribe.                                                            *)
(***************************************************************************)
\* the registry records of the upstream subscription that call c asked for:
\* an option contract by the parts of its alias key and its exchange, a
\* plain symbol or a token by its code
SubRecords(subs, c) ==
    {k \in DOMAIN subs :
        IF c.kind = "option"
        THEN /\ k[1] = "opt" /\ k[2] = c.stock_code /\ k[3].d = c.expiry_date.d
             /\ k[4] = RightTxt(c.right) /\ k[5] = c.strike_price
             /\ subs[k].exchange_code = c.exchange_code
        ELSE k = CodeKey(c.stock_code)}

\* C12: in every reachable state, every active upstream subscription (a
\* subscribe call that no later unsubscribe call cancelled) has exactly one
\* record in the registry, never zero and never two or more.
C12_OneRecordPerSubscription ==
    \A i \in 1..Len(upstream) :
        Live(i) => Cardinality(SubRecords(subscriptions, upstream[i])) = 1

\* the records the registry holds for the descriptor of a completed
\* subscribe or subscribe_option call
DescriptorRecords(subs, call) ==
    IF call.op = "subscribe_option" THEN RecordsFor(subs, call.d)
    ELSE {k \in DOMAIN subs : subs[k].alias = CodeKey(call.code)}

\* unsubscribe(key) returns right after a subscribe or subscribe_option call
\* returned, key being the key of a record that call left for its descriptor
RoundTrip ==
    /\ IsCall
    /\ lastCall.op \in {"subscribe", "subscribe_option"} /\ ~lastCall.raised
    /\ lastCall'.op = "unsubscribe"
    /\ lastCall'.key \in DescriptorRecords(subscriptions, lastCall)

\* C13: subscribing a descriptor d (plain symbol, bare or prefixed token,
\* option contract) and then unsubscribing the key of the record created for
\* d leaves no record for d in the registry.
C13_RoundTrip ==
    [][RoundTrip => DescriptorRecords(subscriptions', lastCall) = {}]_vars

\* an unsubscribe(key) call returns
UnsubscribeReturns == IsCall /\ lastCall'.op = "unsubscribe"

\* C14: unsubscribe(key) for a key without a record is a no-op (no upstream
\* call, no error, registry unchanged); for a key with a record it removes
\* the record and issues the upstream unsubscribe call (which is in the log
\* of accepted calls when the upstream accepts it).
C14_UnsubscribeKnownUnknown ==
    [][UnsubscribeReturns =>
          LET k == lastCall'.key
          IN  IF k \notin DOMAIN subscriptions
              THEN /\ upstream' = upstream
                   /\ subscriptions' = subscriptions
                   /\ ~lastCall'.raised
              ELSE /\ k \notin DOMAIN subscriptions'
                   /\ lastCall'.env[1] =>
                        /\ Len(upstream') = Len(upstream) + 1
                        /\ upstream'[Len(upstream')].op = "unsubscribe"]_vars

\* the expiry day of the contract an option record stands for: the record's
\* expiry_date, or for a record without one the expiry of its alias key
RecordDay(subs, k) ==
    IF subs[k].expiry_date # NoExp THEN subs[k].expiry_date.d ELSE k[3].d

\* unsubscribe_options_except(keep) returns
SweepReturns == IsCall /\ lastCall'.op = "unsubscribe_options_except"

\* C15: after unsubscribe_options_except(keep), every option record whose
\* expiry differs from keep is gone from the registry, every option record
\* whose expiry equals keep is still there unchanged, and no non-option
\* record has been touched, whichever subscribe path wrote the record.
C15_SweepExceptExpiry ==
    [][SweepReturns =>
          LET keep == lastCall'.d.expiry_date.d
          IN  \A k \in DOMAIN subscriptions :
                 IF k \in OptionKeys(subscriptions)
                 THEN IF RecordDay(subscriptions, k) = keep
                      THEN /\ k \in DOMAIN subscriptions'
                           /\ subscriptions'[k] = subscriptions[k]
                      ELSE k \notin DOMAIN subscriptions'
                 ELSE /\ k \in DOMAIN subscriptions'
                      /\ subscriptions'[k] = subscriptions[k]]_vars

\* a subscribe_many(items) call returns or raises
BatchReturns == IsCall /\ lastCall'.op = "subscribe_many"

\* the upstream calls the step issued
NewCalls == SubSeq(upstream', Len(upstream) + 1, Len(upstream'))

\* call c subscribes item it
CallFor(c, it) ==
    /\ c.op = "subscribe"
    /\ c.kind = (IF is_option_item(it) THEN "option" ELSE "plain")
    /\ c.stock_code = it.stock_code
    /\ c.expiry_date = it.expiry_date

\* C16: in a batch subscribe over a mixed list, a failure in one part (no
\* session, a failed connect, an upstream error in the token call) does not
\* keep the plain and option items from being subscribed when their own
\* connect and feed calls succeed, and the caller never gets one failure for
\* the whole batch.
C16_BatchPartitionsIndependent ==
    [][BatchReturns =>
          LET items == lastCall'.items
              e == lastCall'.env
              restOk == /\ breeze \/ session
                        /\ connected \/ e.okRest
                               \/ (token_list(items) # << >> /\ e.okTok)
                        /\ e.feedRest
          IN  /\ subscribe_many_reply(items, lastCall'.raised) # <<"error">>
              /\ restOk =>
                   \A i \in 1..Len(items) :
                       ~is_token_item(items[i]) =>
                           \E j \in 1..Len(NewCalls) : CallFor(NewCalls[j], items[i])]_vars

(***************************************************************************)
(* Properties of the fan-out.                                              *)
(***************************************************************************)
\* the messages connection w has got
Got(w) == {inbox[w][i] : i \in 1..Len(inbox[w])}

\* the tick of message m carried a strike field and a right field
CarriesBoth(m) == m.strike_price # 0 /\ m.right # ""

\* C2: a tick that carries both a strike and a right field reaches only
\* connections of the option-client set, a tick that lacks either reaches only
\* plain connections, whether or not the registry resolved an alias for it.
C2_ClassificationRouting ==
    \A w \in Sockets : \A m \in Got(w) :
        /\ CarriesBoth(m) => (endpoint[w] = "options" /\ m.via # "_broadcast")
        /\ ~CarriesBoth(m) => (endpoint[w] = "ticks" /\ m.via = "_broadcast")

\* a plain connection got a tick that has a strike and no right, under an
\* alias the registry did not resolve, and an option connection got a tick
\* that has both
C2_Witness ==
    /\ \E w \in Sockets : \E m \in Got(w) :
          /\ endpoint[w] = "ticks"
          /\ m.strike_price # 0 /\ m.right = ""
          /\ ~m.resolved
    /\ \E w \in Sockets : \E m \in Got(w) :
          endpoint[w] = "options" /\ CarriesBoth(m)

\* C3: an option connection pinned to expiry D (when the tick arrived and
\* when the message was sent) gets no tick of a registered contract whose
\* expiry resolves to a date other than D, by whichever path the tick
\* reaches it.
C3_PinnedExpiryFilter ==
    \A w \in Sockets : \A m \in Got(w) :
        (/\ endpoint[w] = "options"
         /\ m.pin # NoExp /\ m.pin_then = m.pin
         /\ m.resolved
         /\ filter_norm(filter_raw_exp(m)) # NoExp)
        => filter_norm(filter_raw_exp(m)) = m.pin

\* C4: on a plain connection no two delivered ticks for one alias arrived
\* less than min_interval_ms apart.
C4_Debounce ==
    \A w \in Sockets : \A i, j \in 1..Len(inbox[w]) :
        (/\ endpoint[w] = "ticks"
         /\ i < j
         /\ inbox[w][i].symbol = inbox[w][j].symbol)
        => inbox[w][j].at - inbox[w][i].at >= min_interval_ms

\* every send task of tick n has finished
BroadcastDone(n) == \A i \in 1..Len(pending) : pending[i].payload.n # n

\* C5: once a broadcast is over, a client to which its send failed is in
\* neither client set.
C5_FailedSendRemovesClient ==
    \A f \in sendFailed :
        BroadcastDone(f[1]) => f[2] \notin (clients \cup option_clients)

\* message m is tick n sent by a broadcast
ByBroadcast(m, n) == m.n = n /\ m.via \in {"_broadcast", "_broadcast_options"}

\* a send a broadcast has started for a client is still to finish, or has
\* delivered the tick, or has failed on that client's own socket; and no
\* exception has left a broadcast
C6_EverySendRuns ==
    /\ loopErrors = 0
    /\ \A t \in targeted :
          \/ \E i \in 1..Len(pending) :
                pending[i].payload.n = t[1] /\ pending[i].w = t[2]
          \/ \E m \in Got(t[2]) : ByBroadcast(m, t[1])
          \/ t \in sendFailed

\* the step in which a broadcast coroutine starts creates a send for every
\* client registered in its set
C6_EveryClientTargeted ==
    (queue # << >> /\ queue' = Tail(queue) /\ Head(queue).kind # "handler")
    => LET co == Head(queue)
           set == IF co.kind = "_broadcast" THEN clients ELSE option_clients
       IN  \A w \in set : <<co.payload.n, w>> \in targeted'

\* C6: broadcasting is best-effort: a broadcast starts a send of the tick to
\* every client registered in its set, and each of these sends runs to its
\* own end (delivered, or failed on its own socket) whatever happened to the
\* sends to the other clients; no exception leaves a broadcast.
C6_BestEffortBroadcast == []C6_EverySendRuns /\ [][C6_EveryClientTargeted]_vars

\* one broadcast is over: its send to one client failed and its send to
\* another client of the same set delivered the tick
C6_Witness ==
    \E f \in sendFailed : \E w \in Sockets :
        /\ w # f[2]
        /\ endpoint[w] = endpoint[f[2]]
        /\ BroadcastDone(f[1])
        /\ \E m \in Got(w) : ByBroadcast(m, f[1])


(***************************************************************************)
(* Properties of the callback under any frame of the feed.                 *)
(***************************************************************************)
\* the empty alias: `alias_from_tick or alias or base_sym or raw_token_u`
\* when all four are empty
EmptySymbol == CodeKey("")

\* the symbols of the payloads scheduled for a broadcast or a handler, in
\* flight to a socket, or received by one
BroadcastSymbols ==
    {queue[i].payload.symbol : i \in 1..Len(queue)}
    \cup {pending[i].payload.symbol : i \in 1..Len(pending)}
    \cup UNION {{inbox[w][i].symbol : i \in 1..Len(inbox[w])} : w \in Sockets}

\* the keys the cache holds
CachedSymbols == DOMAIN db \cup DOMAIN mem_cache

\* C21: the symbol of every tick that is cached or broadcast is never
\* empty: no cache row is keyed by the empty text and no payload scheduled,
\* in flight or delivered carries the empty text as its symbol.
C21_AliasNeverEmpty ==
    /\ UpperKey(EmptySymbol) \notin CachedSymbols
    /\ EmptySymbol \notin BroadcastSymbols

(***************************************************************************)
(* Properties of the alias and of the expiry texts of option records.      *)
(***************************************************************************)
\* the aliases of the records of the registry
RecordAliases == {subscriptions[k].alias : k \in DOMAIN subscriptions}

\* UNDERLYING|YYYY-MM-DD|CALL_OR_PUT|INTEGER_STRIKE for a descriptor
BareIsoAlias(d) ==
    OptAlias(d.stock_code, Exp(d.expiry_date.d, "iso"), RightTxt(d.right),
             d.strike_price)

\* C22: after subscribe_option returns for a descriptor (NIFTY, NFO, expiry
\* 2025-02-13T06:00:00.000Z, strike 23600, right call), the registry holds a
\* record whose alias is NIFTY|2025-02-13|CALL|23600; in general the alias
\* of an option record carries its expiry as a bare ISO date.
C22_AliasIsBareIsoDate ==
    /\ (lastCall.op = "subscribe_option" /\ ~lastCall.raised)
           => BareIsoAlias(lastCall.d) \in RecordAliases
    /\ \A a \in RecordAliases : a[1] = "opt" => a[3].f = "iso"

\* every symbol the callback has produced: cache keys and payloads
TickSymbols == CachedSymbols \cup BroadcastSymbols

\* two option aliases of one contract: same underlying, expiry day, right
\* and strike
SameContract(a, b) ==
    /\ a[1] = "opt" /\ b[1] = "opt"
    /\ a[2] = b[2] /\ a[3].d = b[3].d /\ a[4] = b[4] /\ a[5] = b[5]

\* C23: the aliases synthesized from ticks of one (underlying, expiry day,
\* strike, right) are one alias, whichever of DD-Mon-YYYY, ISO-with-time
\* and bare ISO date each tick carried and in whatever order they came.
C23_AliasSameForEveryFormat ==
    \A a \in TickSymbols, b \in TickSymbols : SameContract(a, b) => a = b

\* two ticks of one contract, the first with DD-Mon-YYYY and the second with
\* a bare ISO date, are scheduled under one alias
C23_Witness ==
    \E i \in 1..Len(queue), j \in 1..Len(queue) :
        /\ i < j
        /\ queue[i].payload.expiry_date = Exp(1, "dmy")
        /\ queue[j].payload.expiry_date = Exp(1, "iso")
        /\ queue[i].payload.symbol = queue[j].payload.symbol
        /\ queue[i].payload.symbol[1] = "opt"

\* C24: a bare numeric token is rewritten to the prefixed form before it is
\* used as a key: no record of the registry is keyed by a bare numeric
\* token and no upstream subscribe call names one, whether the token came
\* through subscribe or through subscribe_many.
C24_NumericTokenPrefixed ==
    /\ \A k \in DOMAIN subscriptions : k[1] = "code" => k[2] \notin NumericCodes
    /\ \A i \in 1..Len(upstream) :
           upstream[i].op = "subscribe" => upstream[i].stock_code \notin NumericCodes

\* the ticks some cache row or some payload scheduled, in flight or
\* delivered belongs to
KeptTicks ==
    {db[k] : k \in DOMAIN db} \cup {mem_cache[k] : k \in DOMAIN mem_cache}
    \cup {queue[i].payload.n : i \in 1..Len(queue)}
    \cup {pending[i].payload.n : i \in 1..Len(pending)}
    \cup UNION {{inbox[w][i].n : i \in 1..Len(inbox[w])} : w \in Sockets}

FullRows(side) ==
    {k \in 1..Len(depth_rows) :
        /\ depth_rows[k].level \in 1..depth_levels
        /\ IF side = "buy"
           THEN depth_rows[k].bp # None /\ depth_rows[k].bq # None
           ELSE depth_rows[k].sp # None /\ depth_rows[k].sq # None}

\* the levels of a side that rows with both values give
FullLevels(side) ==
    {IF side = "buy" THEN Level(depth_rows[k].bp, depth_rows[k].bq)
     ELSE Level(depth_rows[k].sp, depth_rows[k].sq) : k \in FullRows(side)}

SeqRange(q) == {q[i] : i \in 1..Len(q)}

\* C26: after the depth list of a tick is normalised, bids are in
\* descending order of price and asks in ascending order, a level is in a
\* ladder only if the list gave both its price and its quantity (and every
\* such level is in it), and the list with level 1 only, 100/50 to buy and
\* 101/30 to sell, gives bids = [{100, 50}] and asks = [{101, 30}].
C26_DepthLadders ==
    ladder.done =>
        /\ \A i \in 1..Len(ladder.bids), j \in 1..Len(ladder.bids) :
               i < j => ladder.bids[i].price >= ladder.bids[j].price
        /\ \A i \in 1..Len(ladder.asks), j \in 1..Len(ladder.asks) :
               i < j => ladder.asks[i].price <= ladder.asks[j].price
        /\ SeqRange(ladder.bids) = FullLevels("buy")
        /\ SeqRange(ladder.asks) = FullLevels("sell")
        /\ Len(ladder.bids) = Cardinality(FullRows("buy"))
        /\ Len(ladder.asks) = Cardinality(FullRows("sell"))
        /\ depth_rows = <<DepthRow(1, 100, 50, 101, 30)>>
               => /\ ladder.bids = <<Level(100, 50)>>
                  /\ ladder.asks = <<Level(101, 30)>>

\* a list whose first row holds the lower bid and whose second row lacks
\* the quantity to sell was normalised: the bids changed places and the
\* ask without quantity is not in the ladder
C26_Witness ==
    /\ ladder.done
    /\ depth_rows = <<DepthRow(1, 99, 50, 101, 30), DepthRow(2, 100, 50, 102, None)>>
    /\ ladder.bids = <<Level(100, 50), Level(99, 50)>>
    /\ ladder.asks = <<Level(101, 30)>>

(***************************************************************************)
(* Properties of the broadcasts on the loop.                               *)
(***************************************************************************)
\* C27: a broadcast runs to completion before the next one begins: the
\* sends that have not finished all belong to one tick, so sends of two
\* ticks never interleave.
C27_BroadcastsRunToCompletion ==
    \A i \in 1..Len(pending), j \in 1..Len(pending) :
        pending[i].payload.n = pending[j].payload.n

\* the i-th upstream call subscribed the contract the j-th call names, with
\* the same expiry text
SubscribedAs(i, j) ==
    /\ i < j
    /\ upstream[i].op = "subscribe"
    /\ Contract(upstream[i]) = Contract(upstream[j])
    /\ upstream[i].expiry_date = upstream[j].expiry_date

\* C28: the registry holds the expiry of an option record as a bare ISO
\* date, and an upstream unsubscribe call for an option carries the expiry
\* text of the subscribe call that subscribed the contract.
C28_UnsubscribeCarriesSubscribedExpiry ==
    /\ \A k \in OptionKeys(subscriptions) : subscriptions[k].expiry_date.f = "iso"
    /\ \A j \in 1..Len(upstream) :
           (upstream[j].op = "unsubscribe" /\ upstream[j].kind = "option")
               => \E i \in 1..Len(upstream) : SubscribedAs(i, j)

(***************************************************************************)
(* Properties of the pinned expiry of an option connection.                *)
(***************************************************************************)
\* a tick of the contract the model trades, for expiry day d spelled f
TickOf(d, f) == RawTick("NIFTY", Exp(d, f), 23600, "Call", FALSE)

\* a tick of day d, whatever its spelling, passes the filter of a
\* connection pinned to sel
PassesFilter(sel, d) ==
    \A f \in {"dmy", "iso", "isoT"} :
        forward_filtered(sel, Payload(0, TickOf(d, f), subscriptions, 0, selected)) # Drop

\* C29: the pinned expiry of an option connection is a bare ISO date
\* whatever spelling the subscribe_options request used ("13-Feb-2025" pins
\* like "2025-02-13T06:00:00.000Z"), the registry holds records of that
\* expiry after the request, and ticks of that expiry pass the
\* connection's filter.
C29_PinIsIsoDate ==
    \A w \in Sockets :
        selected[w] # NoExp =>
            /\ selected[w].f = "iso"
            /\ PassesFilter(selected[w], selected[w].d)
            /\ (lastCall.op = "ws_options.subscribe_options" /\ ~lastCall.raised)
                   => \E k \in OptionKeys(subscriptions) :
                          subscriptions[k].expiry_date.d = lastCall.d.expiry_date.d

\* a payload with a depth ladder whose expiry cannot be told: the feed sent
\* none and its symbol is no option alias
DepthOnlyPayload(p) == p.depth /\ p.tick_expiry = NoExp /\ p.symbol[1] # "opt"

\* the step is the loop running the forwarder of connection w on payload p
ForwarderRuns(w, p) ==
    /\ queue # << >>
    /\ Head(queue).kind = "handler"
    /\ Head(queue).w = w
    /\ Head(queue).payload.n = p.n
    /\ Len(queue') = Len(queue) - 1

\* C30: when the forwarder of an option connection pinned to the date D
\* gets a depth-only tick whose expiry cannot be told, it does not drop it:
\* the connection receives the tick with its expiry set to D.  (Every pin
\* is a date here: no connection asked with DD-Mon-YYYY.)
C30_DepthTickStampedWithPin ==
    [][\A w \in Sockets :
         (/\ queue # << >>
          /\ ForwarderRuns(w, Head(queue).payload)
          /\ DepthOnlyPayload(Head(queue).payload)
          /\ selected[w].f = "iso"
          /\ \A v \in Sockets : selected[v].f \in {"iso", "none"}
          /\ sock[w] = "open")
         => /\ Len(inbox'[w]) = Len(inbox[w]) + 1
            /\ inbox'[w][Len(inbox'[w])].n = Head(queue).payload.n
            /\ inbox'[w][Len(inbox'[w])].expiry_date = selected[w]]_vars

(***************************************************************************)
(* Properties of the two client sets.                                      *)
(***************************************************************************)
\* C31: the plain-client set and the option-client set are disjoint in
\* every reachable state: no socket is a member of both, whatever clients
\* connected, subscribed, lost their peer and were cleaned up.
C31_ClientSetsDisjoint == clients \cap option_clients = {}

\* a client of each endpoint is registered, each in its own set
C31_Witness ==
    \E v \in clients, w \in option_clients :
        endpoint[v] = "ticks" /\ endpoint[w] = "options"

\* C32: an option tick is delivered at most once to each option client:
\* no connection, registered in the option set with its forwarder in the
\* handler list, holds two messages of one tick.
C32_OptionTickAtMostOnce ==
    \A w \in Sockets :
        endpoint[w] = "options" =>
            \A i \in 1..Len(inbox[w]), j \in 1..Len(inbox[w]) :
                inbox[w][i].n = inbox[w][j].n => i = j

(***************************************************************************)
(* Properties of option connections that share the service.                *)
(***************************************************************************)
\* the registry holds an option record of expiry day d
HasRecordOf(d) ==
    \E k \in OptionKeys(subscriptions) : subscriptions[k].expiry_date.d = d

\* an upstream option subscription of expiry day d is live
HasFeedOf(d) ==
    \E i \in 1..Len(upstream) :
        Live(i) /\ upstream[i].kind = "option" /\ upstream[i].expiry_date.d = d

\* C33: a request of another option connection never takes away what a
\* connection subscribed for its own pinned expiry: as long as a connection
\* is open and pinned to a date, the registry holds records of that expiry
\* and the upstream subscriptions of that expiry are live.
C33_OtherClientKeepsItsExpiry ==
    \A w \in Sockets :
        (endpoint[w] = "options" /\ sock[w] = "open" /\ selected[w].f = "iso")
            => HasRecordOf(selected[w].d) /\ HasFeedOf(selected[w].d)

\* unsubscribe_all_options() returns and every upstream unsubscribe call it
\* made went through: one call per option record it found
SweepAllReturnsClean ==
    /\ IsCall
    /\ lastCall'.op = "unsubscribe_all_options"
    /\ Len(upstream') = Len(upstream) + Cardinality(OptionKeys(subscriptions))

\* the j-th upstream call cancels the i-th: an unsubscribe call with the
\* same exchange, contract and feed type
Cancels(up, j, i) ==
    /\ up[j].op = "unsubscribe"
    /\ Contract(up[j]) = Contract(up[i])
    /\ up[j].get_market_depth = up[i].get_market_depth
    /\ up[j].get_exchange_quotes = up[i].get_exchange_quotes

\* C34: after unsubscribe_all_options returns with no upstream error, every
\* upstream subscribe call made for an option contract, on either exchange
\* and for the quote feed or the depth feed, has been followed by an upstream
\* unsubscribe call with the same exchange, contract and feed type.
C34_SweepCancelsEveryOptionFeed ==
    [][SweepAllReturnsClean =>
          \A i \in 1..Len(upstream') :
              (upstream'[i].op = "subscribe" /\ upstream'[i].kind = "option")
                  => \E j \in (i + 1)..Len(upstream') : Cancels(upstream', j, i)]_vars

\* subscribe, subscribe_option or subscribe_many returns without having
\* established any upstream subscription: the connection could not be
\* obtained or the upstream subscribe call failed
SubscribeEstablishedNothing ==
    /\ IsCall
    /\ lastCall'.op \in {"subscribe", "subscribe_option", "subscribe_many"}
    /\ upstream' = upstream

\* C35: when obtaining a connection or the upstream subscribe call fails in
\* subscribe, subscribe_option or subscribe_many, the registry is left as it
\* was before the call: no record is added or rewritten for an instrument
\* whose upstream subscription was not established.
C35_FailedSubscribeLeavesRegistry ==
    [][SubscribeEstablishedNothing => subscriptions' = subscriptions]_vars

\* the payload as the tick callback built it, before any forwarder wrote
\* into it
AsBuilt(p) == [p EXCEPT !.expiry_date = p.tick_expiry]

\* C36: what an option client receives for a tick depends on the tick and on
\* its own pinned expiry only, never on the pins of the other clients: when
\* the forwarder of an open connection runs, the tick is dropped or sent, and
\* sent with the expiry, that its own pin decides on the tick as the callback
\* built it; a depth-only tick tagged with the pin of another client is
\* neither dropped for it nor shown to it under the other client's expiry.
C36_ForwardIndependentOfOtherPins ==
    [][\A w \in Sockets :
         (/\ queue # << >>
          /\ ForwarderRuns(w, Head(queue).payload)
          /\ sock[w] = "open")
         => LET own == forward_filtered(selected[w], AsBuilt(Head(queue).payload))
            IN  IF own = Drop THEN inbox'[w] = inbox[w]
                ELSE /\ Len(inbox'[w]) = Len(inbox[w]) + 1
                     /\ inbox'[w][Len(inbox'[w])].n = Head(queue).payload.n
                     /\ inbox'[w][Len(inbox'[w])].expiry_date = own]_vars

\* the step calls send_text on the socket of connection w: its forwarder
\* runs and does not drop the tick, or a send task a broadcast created for
\* it runs on the socket that is no longer open
SendsTo(w) ==
    \/ /\ queue # << >>
       /\ ForwarderRuns(w, Head(queue).payload)
       /\ forward_filtered(selected[w], Head(queue).payload) # Drop
    \/ \E n \in 1..MaxEvents : <<n, w>> \in sendFailed' \ sendFailed

NextClient ==
    \/ WsTicksConnect
    \/ WsTicksSubscribe
    \/ WsTicksUnsubscribe
    \/ PeerClose
    \/ WsCleanup
    \/ UpstreamTick
    \/ LoopRun
    \/ LoopSend

SpecClient == InitFanout /\ [][NextClient]_vars

\* the step is the 'unsubscribe' action of a /ws/ticks connection that
\* subscribed to the symbol sym before
UnsubscribesFrom(sym) ==
    /\ IsCall
    /\ lastCall'.op = "ws_ticks.unsubscribe"
    /\ lastCall'.code = sym
    /\ sym # ""

\* C38: after a /ws/ticks client that subscribed to a symbol with the market
\* open sends 'unsubscribe', the manager holds no record for the symbol, the
\* upstream unsubscribe call for it has been issued and the client has been
\* sent an 'unsubscribed' message for it.
C38_UnsubscribeReleasesSymbol ==
    [][\A sym \in ClientCodes :
         UnsubscribesFrom(sym) =>
             /\ ~HasKey(subscriptions', CodeKey(sym))
             /\ \E i \in 1..Len(upstream') :
                    upstream'[i].op = "unsubscribe" /\ upstream'[i].stock_code = sym
             /\ \E w \in Sockets : <<w, sym>> \in unsubscribed']_vars

(***************************************************************************)
(* The /ws/ticks endpoint of both copies of the service, with the older    *)
(* copy's connector.                                                       *)
(***************************************************************************)
NextLegacy ==
    \/ LegacyConnectCall
    \/ LegacyWsConnect
    \/ LegacyRegister
    \/ LegacyWsTicksSubscribe
    \/ LegacyWsTicksUnsubscribe
    \/ WsTicksConnect
    \/ WsTicksSubscribe
    \/ WsTicksUnsubscribe
    \/ PeerClose
    \/ WsCleanup

SpecLegacy == InitConnector /\ [][NextLegacy]_vars

\* C39: while the connector reports connected, the tick callback stays
\* registered on the shared upstream client, in both copies of the service:
\* no subscribe (with the market open or closed), unsubscribe or disconnect
\* of any connection removes it.
C39_CallbackStaysRegistered ==
    /\ connected => onTicks
    /\ legacy_connected => legacy_onTicks

\* the spellings of the side the feed may send for the contract of the
\* upstream call c, and of its expiry day
TickRights(c) == IF RightTxt(c.right) = "CALL" THEN {"Call", "CE"} ELSE {"Put", "PE"}
TickExpiries(c) == {Exp(c.expiry_date.d, f) : f \in {"dmy", "iso", "isoT"}}

\* the alias the callback synthesizes for a tick of the contract of c
TickAliases(c, subs) ==
    {tick_symbol(RawTick(c.stock_code, e, c.strike_price, r, FALSE), subs) :
        e \in TickExpiries(c), r \in TickRights(c)}

\* C40: for every option contract subscribed through subscribe_option,
\* subscribe_option_market_depth or an option item of subscribe_many, the
\* registry holds, when the call returns, a record whose alias is the alias
\* the tick callback synthesizes for an upstream tick of that contract,
\* whichever accepted spelling of the expiry and of the side the caller used
\* and the feed uses.
C40_RecordAliasIsTickAlias ==
    [][(/\ IsCall
        /\ lastCall'.op \in {"subscribe_option", "subscribe_option_market_depth",
                             "subscribe_many"})
       => \A i \in (Len(upstream) + 1)..Len(upstream') :
              (upstream'[i].op = "subscribe" /\ upstream'[i].kind = "option")
                  => \A a \in TickAliases(upstream'[i], subscriptions') :
                         a \in {subscriptions'[k].alias : k \in DOMAIN subscriptions'}]_vars

====
